---- MODULE Spec2Model ----
(***************************************************************************)
(* Agent orchestration core of terraform-llm: the Worker (BaseAgent), its  *)
(* drain loop, the persisted Agent rows (MemStorage) and the Registry      *)
(* (AgentManager).                                                         *)
(*                                                                         *)
(* Granularity.  Every method of the core is an async function.  One step  *)
(* of the model is the code that runs between two suspension points: from  *)
(* a call (or from the resumption after an `await`) up to the next         *)
(* `await`.  MemStorage's methods do their work synchronously when they    *)
(* are called, so a storage write belongs to the segment that calls it and *)
(* the suspension follows the write.  Which suspended call or loop resumes *)
(* next is a nondeterministic choice.                                      *)
(***************************************************************************)
EXTENDS Integers, Sequences, FiniteSets, Bags, TLC

\* ------------------------------------------------------------------ bounds
MaxTasks == 4    \* tasks submitted in one run (task ids 1..MaxTasks, in submission order)
WorkerTasks == 2 \* tasks submitted in one run of Spec
MaxInst == 3     \* Worker instances constructed in one run
MaxLoops == 2    \* processQueue invocations simultaneously active on one Worker
MaxCalls == 2    \* start/stop/startAgent/stopAgent/assignTask calls in flight
MaxStarts == 2   \* direct start() calls issued in one run
MaxStops == 1    \* direct stop() calls issued in one run
RegistryTasks == 2 \* assignTask calls issued in one run of SpecRegistry
RegistryStops == 2 \* stopAgent calls issued in one run
MaxRows == 2     \* Agent rows in the store when the process starts
IsolatedTasks == 3 \* tasks enqueued in one run of SpecIsolated
MaxCommits == 3  \* commits getRecentCommits returns
LearningTasks == 3 \* tasks enqueued in one run of SpecLearning
LearningCommits == 1 \* commits getRecentCommits returns in SpecLearning
MaxRequests == 2 \* POST /api/projects requests in one run
ReconnectAttempts == 2 \* the hook's reconnectAttempts option
MaxSockets == 4 \* connect() invocations of the hook in one run

Priorities == {1, 5, 10}
TwoPriorities == {5, 10}
Kinds == {"generate_terraform", "deploy_infrastructure"}
InfrastructureKinds == {"generate_terraform", "deploy_infrastructure", "monitor_resources"}
LearningKinds == {"analyze_commits", "learn_patterns", "suggest_improvements"}
CodeGeneratorKinds == {"generate_project"}
WorkerKinds == {"generate_terraform", "analyze_commits"}
Projects == {1, 2}
AgentTypesAndMore == {"code_generator", "infrastructure", "learning", "security"}
AgentTypes == {"code_generator", "infrastructure", "learning"}
RequestTypes == {"infrastructure", "security"}

TaskIds == 1..MaxTasks
Insts == 1..MaxInst

NoTask == [id |-> 0, type |-> "none", priority |-> 0]
Null == "null"

VARIABLES
    store,      \* MemStorage.agents: agent id -> persisted Agent row
    registry,   \* AgentManager.agents: agent id -> Worker instance (0: no entry)
    workers,    \* Worker instance -> its fields and its active drain loops
    calls,      \* bag of calls suspended at an await
    agentLog,   \* Worker instance -> number of 'Agent started' / 'Agent stopped' log entries
    hist,       \* task id -> what happened to the task (log entries, handler invocations, ...)
    drained,    \* Worker instance -> ids of the tasks it dequeued, in dequeue order
    nextTask,   \* id of the next task submitted
    nStart,     \* direct start() calls issued so far
    nStop,      \* direct stop() calls issued so far
    boot,       \* existingAgents: the rows initializeAgents read from the store
    run,        \* the handler invocation whose steps are followed
    projects,   \* MemStorage.projects: the Project records, in the order of their creation
    hook        \* useWebSocket: the state, the refs, the sockets and the timers of the hook

vars == <<store, registry, workers, calls, agentLog, hist, drained, nextTask, nStart, nStop,
         boot, run, projects, hook>>

\* useWebSocket before its first effect has run: the initial values of the
\* state and of the refs; no socket and no timer exists.
NoHook ==
    [connectionStatus |-> "disconnected", wsRef |-> 0, reconnectTimeoutRef |-> 0,
     reconnectCountRef |-> 0, sockets |-> <<>>, timers |-> {}, nTimers |-> 0,
     attempts |-> 0, mounted |-> "no", quiet |-> FALSE, last |-> "none"]

\* ------------------------------------------------------------- persistence

\* A progress value is a number: the handlers compute it in floating point
\* (30 + (i / commits.length) * 50), so it is kept as the fraction num / den in
\* lowest terms.
RECURSIVE Gcd(_, _)
Gcd(a, b) == IF b = 0 THEN a ELSE Gcd(b, a % b)
Frac(num, den) == LET g == Gcd(num, den) IN [num |-> num \div g, den |-> den \div g]
Whole(p) == [num |-> p, den |-> 1]

\* MemStorage.createAgent: a new row is idle, without current task, progress 0.
NewAgent(type) ==
    [type |-> type, status |-> "idle", currentTask |-> Null, progress |-> Whole(0)]

\* BaseAgent.updateStatus(status, currentTask?): currentTask || null.
UpdateStatus(row, status, kind) == [row EXCEPT !.status = status, !.currentTask = kind]

\* BaseAgent.updateProgress(progress): only the progress field is written.
UpdateProgress(row, p) == [row EXCEPT !.progress = p]

\* The progress values a handler reports where its steps are not followed.
ProgressValues == {Whole(50), Whole(100)}

\* ------------------------------------------------------------------ Worker

\* The task kinds an archetype's executeTask has a case for; any other kind
\* reaches the default case, which throws.
HandlerTable(type) ==
    IF type = "infrastructure" THEN InfrastructureKinds
    ELSE IF type = "learning" THEN LearningKinds
    ELSE CodeGeneratorKinds

\* new BaseAgent(agentId): isRunning false, empty queue, no current task; a
\* LearningAgent has its knowledgeBase, an empty map (kept as the set of the
\* project ids it has an entry for); no listener, no drain loop.
NewWorker(a) ==
    [agentId |-> a, isRunning |-> FALSE, taskQueue |-> <<>>, currentTask |-> NoTask,
     listeners |-> 0, loops |-> EmptyBag, knowledge |-> {}]

Unbuilt == NewWorker(0)

\* A comparator that also puts a task in front of those of its own priority.
BeforeOrEqual(a, b) == b.priority - a.priority <= 0

\* The comparator of addTask's sort, (a, b) => b.priority - a.priority: negative
\* (a before b) exactly when a's priority is higher.
Before(a, b) == b.priority - a.priority < 0

\* Array.prototype.sort is stable: an element moves in front of exactly those the
\* comparator puts it in front of.  Insert x into an already sorted s.
RECURSIVE InsertStable(_, _)
InsertStable(x, s) ==
    IF s = <<>> THEN <<x>>
    ELSE IF Before(x, Head(s)) THEN <<x>> \o s
    ELSE <<Head(s)>> \o InsertStable(x, Tail(s))

RECURSIVE SortByPriority(_)
SortByPriority(q) ==
    IF q = <<>> THEN <<>>
    ELSE InsertStable(q[Len(q)], SortByPriority(SubSeq(q, 1, Len(q) - 1)))

NumLoops(wr) == BagCardinality(wr.loops)

Loop(pc, task) == [pc |-> pc, task |-> task]

\* The while head without the status write on leaving the loop.
WhileHeadNoExitWrite(wr, row) ==
    IF wr.isRunning /\ Len(wr.taskQueue) > 0
    THEN LET t == Head(wr.taskQueue) IN
         [wr |-> [wr EXCEPT !.currentTask = t, !.taskQueue = Tail(wr.taskQueue)],
          row |-> UpdateStatus(row, "working", t.type),
          took |-> t]
    ELSE [wr |-> wr, row |-> row, took |-> NoTask]

\* The while head that writes status running on leaving the loop even when the
\* Worker was stopped.
WhileHeadExitAlwaysWrites(wr, row) ==
    IF wr.isRunning /\ Len(wr.taskQueue) > 0
    THEN LET t == Head(wr.taskQueue) IN
         [wr |-> [wr EXCEPT !.currentTask = t, !.taskQueue = Tail(wr.taskQueue)],
          row |-> UpdateStatus(row, "working", t.type),
          took |-> t]
    ELSE [wr |-> wr, row |-> UpdateStatus(row, "running", Null), took |-> NoTask]

\* The while head that does not test the should-continue flag.
WhileHeadIgnoresFlag(wr, row) ==
    IF Len(wr.taskQueue) > 0
    THEN LET t == Head(wr.taskQueue) IN
         [wr |-> [wr EXCEPT !.currentTask = t, !.taskQueue = Tail(wr.taskQueue)],
          row |-> UpdateStatus(row, "working", t.type),
          took |-> t]
    ELSE [wr |-> wr,
          row |-> IF wr.isRunning THEN UpdateStatus(row, "running", Null) ELSE row,
          took |-> NoTask]

\* The head of processQueue's while loop, with the code up to the next await:
\* dequeue the head task and write status working, or leave the loop and, if
\* still running, write status running.  Returns the Worker, the Agent row, the
\* task taken (NoTask: the loop ended).
WhileHead(wr, row) ==
    IF wr.isRunning /\ Len(wr.taskQueue) > 0
    THEN LET t == Head(wr.taskQueue) IN
         [wr |-> [wr EXCEPT !.currentTask = t, !.taskQueue = Tail(wr.taskQueue)],
          row |-> UpdateStatus(row, "working", t.type),
          took |-> t]
    ELSE [wr |-> wr,
          row |-> IF wr.isRunning THEN UpdateStatus(row, "running", Null) ELSE row,
          took |-> NoTask]

\* A call of processQueue(): a new invocation that runs to its first await.
ProcessQueue(wr, row) ==
    LET h == WhileHead(wr, row) IN
    [wr |-> IF h.took = NoTask THEN h.wr
            ELSE [h.wr EXCEPT !.loops = @ (+) SetToBag({Loop("status", NoTask)})],
     row |-> h.row,
     took |-> h.took]

\* addTask's condition for starting a drain loop.
ShouldDrain(wr) == wr.isRunning /\ wr.currentTask = NoTask

\* An addTask that takes the head task in hand at once whenever no task is in
\* hand, on a Worker that is not running too.
AddTaskToAndRun(wr, row, task) ==
    LET q == SortByPriority(Append(wr.taskQueue, task)) IN
    IF wr.currentTask = NoTask
    THEN [wr |-> [wr EXCEPT !.currentTask = Head(q), !.taskQueue = Tail(q),
                            !.loops = @ (+) SetToBag({Loop("status", NoTask)})],
          row |-> UpdateStatus(row, "working", Head(q).type),
          took |-> Head(q)]
    ELSE [wr |-> [wr EXCEPT !.taskQueue = q], row |-> row, took |-> NoTask]

\* addTask(task): push, sort, and start draining if running with no task in hand.
AddTaskTo(wr, row, task) ==
    LET q == SortByPriority(Append(wr.taskQueue, task))
        w1 == [wr EXCEPT !.taskQueue = q]
    IN IF ShouldDrain(w1) THEN ProcessQueue(w1, row)
       ELSE [wr |-> w1, row |-> row, took |-> NoTask]

\* ghost bookkeeping of a dequeue
Dequeued(h, t) == IF t = NoTask THEN h ELSE [h EXCEPT ![t.id].deq = @ + 1]
DrainedBy(d, w, t) == IF t = NoTask THEN d ELSE [d EXCEPT ![w] = Append(@, t.id)]

\* What is recorded of a task: kind and prio, the kind and the priority it was
\* submitted with; enq, the
\* Worker it was enqueued on; calm, whether it was enqueued on a running Worker
\* with an empty queue, no drain loop and no call in flight; buf, whether it was
\* enqueued on a Worker that was not running; deq, how often it
\* was dequeued; started / done / err, the 'Starting task', 'Completed task' and
\* error-level 'Task failed' log entries written for it; inv / fail, how often a
\* handler was invoked with it and threw; emit / obs, the taskError events
\* emitted for it and the listeners that received them; cut, whether stop() was
\* called while its handler was executing; req, the archetype assignTask was
\* called with; elig, the first Agent of that archetype whose status was running
\* or working when assignTask read the Agent rows (0: none); res, what
\* assignTask reported to its caller; project, the payload's projectId.
NewHist == [kind |-> "none", prio |-> 0, project |-> 0, enq |-> 0, calm |-> FALSE, buf |-> FALSE, cut |-> FALSE, deq |-> 0, started |-> 0, inv |-> 0,
            fail |-> 0, done |-> 0, err |-> 0, emit |-> 0, obs |-> 0,
            req |-> "none", elig |-> 0, res |-> "none"]


Call(op, pc, w, a, task, target) ==
    [op |-> op, pc |-> pc, w |-> w, a |-> a, task |-> task, target |-> target]

NumCalls == BagCardinality(calls)
Suspend(c) == calls (+) SetToBag({c})
Resume(c, next) == (calls (-) SetToBag({c})) (+) SetToBag(next)

\* The least element of a non-empty set of ids.
First(S) == CHOOSE a \in S : \A b \in S : a <= b

Row(w) == store[workers[w].agentId]
Built(w) == workers[w].agentId # 0

\* A persistence write that goes to the first row of the store, whichever Worker
\* makes it.
CommitToFirstRow(w, wr, row) ==
    /\ workers' = [workers EXCEPT ![w] = wr]
    /\ store' = [store EXCEPT ![First(DOMAIN store)] = row]

\* The result of a code segment of Worker w: its fields and its Agent row.
Commit(w, wr, row) ==
    /\ workers' = [workers EXCEPT ![w] = wr]
    /\ store' = [store EXCEPT ![workers[w].agentId] = row]

\* start() without its test of isRunning.
StartHeadAlways(wr, row) ==
    [wr |-> [wr EXCEPT !.isRunning = TRUE],
     row |-> UpdateStatus(row, "running", Null),
     began |-> TRUE]

\* start(), up to its first await: nothing if already running, else the flag and
\* the status write.
StartHead(wr, row) ==
    IF wr.isRunning THEN [wr |-> wr, row |-> row, began |-> FALSE]
    ELSE [wr |-> [wr EXCEPT !.isRunning = TRUE],
          row |-> UpdateStatus(row, "running", Null),
          began |-> TRUE]

\* A stop() that writes the status and leaves the flag as it is.
StopHeadKeepsFlag(wr, row) ==
    [wr |-> wr, row |-> UpdateStatus(row, "idle", Null)]

\* stop(), up to its first await: the flag and the status write.
StopHead(wr, row) ==
    [wr |-> [wr EXCEPT !.isRunning = FALSE], row |-> UpdateStatus(row, "idle", Null)]

\* ------------------------------------------------- direct calls on a Worker

\* worker.start() is called.
Start(w) ==
    /\ Built(w)
    /\ nStart < MaxStarts
    /\ nStart' = nStart + 1
    /\ LET s == StartHead(workers[w], Row(w)) IN
       /\ Commit(w, s.wr, s.row)
       /\ IF s.began
          THEN /\ NumCalls < MaxCalls
               /\ calls' = Suspend(Call("start", "s1", w, workers[w].agentId, NoTask, 0))
          ELSE calls' = calls
    /\ UNCHANGED <<registry, agentLog, hist, drained, nextTask, nStop, boot, run, projects, hook>>

\* start() resumes after updateStatus('running'): log 'Agent started'.
StartLog(c) ==
    /\ c.pc = "s1"
    /\ agentLog' = [agentLog EXCEPT ![c.w].started = @ + 1]
    /\ calls' = Resume(c, {[c EXCEPT !.pc = "s2"]})
    /\ UNCHANGED <<store, registry, workers, hist, drained, nextTask, nStart, nStop, boot, run, projects,
                   hook>>

\* start() resumes after the log: processQueue() is called (not awaited) and
\* start() returns; startAgent then still has its listener to attach.
StartDrain(c) ==
    /\ c.pc = "s2"
    /\ LET r == ProcessQueue(workers[c.w], Row(c.w)) IN
       /\ NumLoops(r.wr) <= MaxLoops
       /\ Commit(c.w, r.wr, r.row)
       /\ hist' = Dequeued(hist, r.took)
       /\ drained' = DrainedBy(drained, c.w, r.took)
    /\ calls' = Resume(c, IF c.op = "startAgent" THEN {[c EXCEPT !.pc = "attach"]} ELSE {})
    /\ UNCHANGED <<registry, agentLog, nextTask, nStart, nStop, boot, run, projects, hook>>

\* ghost bookkeeping of a stop(): the tasks whose handler is executing on w.
CutBy(h, w) ==
    [t \in TaskIds |->
        IF \E l \in BagToSet(workers[w].loops) : l.pc = "exec" /\ l.task.id = t
        THEN [h[t] EXCEPT !.cut = TRUE] ELSE h[t]]

\* worker.stop() is called.
Stop(w) ==
    /\ Built(w)
    /\ nStop < MaxStops
    /\ nStop' = nStop + 1
    /\ NumCalls < MaxCalls
    /\ LET s == StopHead(workers[w], Row(w)) IN Commit(w, s.wr, s.row)
    /\ calls' = Suspend(Call("stop", "t1", w, workers[w].agentId, NoTask, 0))
    /\ hist' = CutBy(hist, w)
    /\ UNCHANGED <<registry, agentLog, drained, nextTask, nStart, boot, run, projects, hook>>

\* stop() resumes after updateStatus('idle'): log 'Agent stopped'.
StopLog(c) ==
    /\ c.pc = "t1"
    /\ agentLog' = [agentLog EXCEPT ![c.w].stopped = @ + 1]
    /\ calls' = Resume(c, {[c EXCEPT !.pc = "t2"]})
    /\ UNCHANGED <<store, registry, workers, hist, drained, nextTask, nStart, nStop, boot, run, projects,
                   hook>>

\* stop() returns; stopAgent then deletes the Registry entry of the agent id.
StopReturn(c) ==
    /\ c.pc = "t2"
    /\ registry' = IF c.op = "stopAgent" THEN [registry EXCEPT ![c.a] = 0] ELSE registry
    /\ calls' = Resume(c, {})
    /\ UNCHANGED <<store, workers, agentLog, hist, drained, nextTask, nStart, nStop, boot, run, projects,
                   hook>>

Calm(w) ==
    /\ NumCalls = 0
    /\ workers[w].isRunning
    /\ workers[w].taskQueue = <<>>
    /\ workers[w].loops = EmptyBag

\* worker.addTask(task) is called with a new task, whose payload names a project.
AddTaskFor(w, kind, prio, project) ==
    /\ Built(w)
    /\ nextTask <= MaxTasks
    /\ LET task == [id |-> nextTask, type |-> kind, priority |-> prio]
           r == AddTaskTo(workers[w], Row(w), task)
       IN /\ NumLoops(r.wr) <= MaxLoops
          /\ Commit(w, r.wr, r.row)
          /\ hist' = Dequeued([hist EXCEPT ![task.id].enq = w, ![task.id].prio = prio,
                                            ![task.id].kind = kind,
                                            ![task.id].project = project,
                                            ![task.id].calm = Calm(w),
                                            ![task.id].buf = ~workers[w].isRunning], r.took)
          /\ drained' = DrainedBy(drained, w, r.took)
    /\ nextTask' = nextTask + 1
    /\ UNCHANGED <<registry, calls, agentLog, nStart, nStop, boot, run, projects, hook>>

\* worker.addTask(task) is called with a new task for project 1.
AddTask(w, kind, prio) == AddTaskFor(w, kind, prio, 1)

\* -------------------------------------------------------------- drain loop

\* A handler invocation: the kind of its task; where it is (none: no handler
\* followed; body; catch: deployInfrastructure's catch block; returned; threw);
\* the await it is at; the number of commits; the progress values it has
\* written, in order; the collaborator calls that failed, and those of them
\* whose failure the collaborator's wrapper swallowed; the methods it has
\* called, in order; the status of the deployment record it created; the
\* Activity records it created.
NoRun ==
    [kind |-> "none", at |-> "none", pc |-> 0, n |-> 0, reported |-> <<>>, failed |-> 0,
     swallowed |-> 0, called |-> <<>>, deployment |-> "none", activities |-> 0]

SetLoop(wr, l, next) ==
    [wr EXCEPT !.loops = (@ (-) SetToBag({l})) (+) SetToBag(next)]

\* finally: this.currentTask = null; await this.updateProgress(0).
Finally(wr) == [wr EXCEPT !.currentTask = NoTask]

\* A finally block without its progress write.
NoReset(row) == row

\* finally: await this.updateProgress(0).
ResetProgress(row) == UpdateProgress(row, Whole(0))

\* An exception inside the try block.  catch reads this.currentTask.type for the
\* error log: with no current task that read throws inside catch, finally runs
\* and the exception leaves processQueue; otherwise the error entry is written.
Catch(w, l, h) ==
    LET wr == workers[w] cur == wr.currentTask IN
    IF cur = NoTask
    THEN /\ Commit(w, SetLoop(Finally(wr), l, {Loop("abort", NoTask)}), ResetProgress(Row(w)))
         /\ hist' = h
    ELSE /\ Commit(w, SetLoop(wr, l, {Loop("errLogged", NoTask)}), Row(w))
         /\ hist' = [h EXCEPT ![cur.id].err = @ + 1]

\* After updateStatus('working', ...): log `Starting task: ${this.currentTask.type}`.
LoopLogStart(w, l) ==
    /\ l.pc = "status"
    /\ LET wr == workers[w] cur == wr.currentTask IN
       IF cur = NoTask THEN Catch(w, l, hist)
       ELSE /\ Commit(w, SetLoop(wr, l, {Loop("logged", NoTask)}), Row(w))
            /\ hist' = [hist EXCEPT ![cur.id].started = @ + 1]
    /\ UNCHANGED <<registry, calls, agentLog, drained, nextTask, nStart, nStop, boot, run, projects,
                   hook>>

\* After the log: executeTask(this.currentTask) is called; the handler reads
\* task.type, which throws when there is no current task.  The invocation that
\* begins is the one followed from here on.
LoopExecute(w, l) ==
    /\ l.pc = "logged"
    /\ LET wr == workers[w] cur == wr.currentTask IN
       IF cur = NoTask THEN Catch(w, l, hist)
       ELSE /\ Commit(w, SetLoop(wr, l, {Loop("exec", cur)}), Row(w))
            /\ hist' = [hist EXCEPT ![cur.id].inv = @ + 1]
    /\ run' = IF workers[w].currentTask = NoTask \/ run.at = "none" THEN run ELSE NoRun
    /\ UNCHANGED <<registry, calls, agentLog, drained, nextTask, nStart, nStop, boot, projects, hook>>

\* Whether the executeTask of Worker w has a case for the task's kind.
Known(w, task) == task.type \in HandlerTable(Row(w).type)

\* The handler reports a progress value.
HandlerProgress(w, l, p) ==
    /\ l.pc = "exec"
    /\ Known(w, l.task)
    /\ Row(w).progress # p
    /\ Commit(w, workers[w], UpdateProgress(Row(w), p))
    /\ UNCHANGED <<registry, calls, agentLog, hist, drained, nextTask, nStart, nStop, boot, run, projects,
                   hook>>

\* The handler returns: log `Completed task: ${this.currentTask.type}`.
HandlerSucceed(w, l) ==
    /\ l.pc = "exec"
    /\ Known(w, l.task)
    /\ LET wr == workers[w] cur == wr.currentTask IN
       IF cur = NoTask THEN Catch(w, l, hist)
       ELSE /\ Commit(w, SetLoop(wr, l, {Loop("completed", NoTask)}), Row(w))
            /\ hist' = [hist EXCEPT ![cur.id].done = @ + 1]
    /\ UNCHANGED <<registry, calls, agentLog, drained, nextTask, nStart, nStop, boot, run, projects,
                   hook>>

\* The handler throws, or executeTask has no case for the kind and throws.
HandlerFail(w, l) ==
    /\ l.pc = "exec"
    /\ Catch(w, l, [hist EXCEPT ![l.task.id].fail = @ + 1])
    /\ UNCHANGED <<registry, calls, agentLog, drained, nextTask, nStart, nStop, boot, run, projects,
                   hook>>

\* After the error log: emit('taskError', this.currentTask, error), then finally.
LoopEmit(w, l) ==
    /\ l.pc = "errLogged"
    /\ LET wr == workers[w] cur == wr.currentTask IN
       /\ Commit(w, SetLoop(Finally(wr), l, {Loop("fin", NoTask)}), ResetProgress(Row(w)))
       /\ hist' = IF cur = NoTask THEN hist
                  ELSE [hist EXCEPT ![cur.id].emit = @ + 1, ![cur.id].obs = @ + wr.listeners]
    /\ UNCHANGED <<registry, calls, agentLog, drained, nextTask, nStart, nStop, boot, run, projects,
                   hook>>

\* After the completion log: finally.
LoopFinally(w, l) ==
    /\ l.pc = "completed"
    /\ Commit(w, SetLoop(Finally(workers[w]), l, {Loop("fin", NoTask)}), ResetProgress(Row(w)))
    /\ UNCHANGED <<registry, calls, agentLog, hist, drained, nextTask, nStart, nStop, boot, run, projects,
                   hook>>

\* After updateProgress(0): back to the while condition.
LoopNext(w, l) ==
    /\ l.pc = "fin"
    /\ LET h == WhileHead(workers[w], Row(w)) IN
       /\ Commit(w, SetLoop(h.wr, l, IF h.took = NoTask THEN {} ELSE {Loop("status", NoTask)}),
                 h.row)
       /\ hist' = Dequeued(hist, h.took)
       /\ drained' = DrainedBy(drained, w, h.took)
    /\ UNCHANGED <<registry, calls, agentLog, nextTask, nStart, nStop, boot, run, projects, hook>>

\* After finally's updateProgress(0), with the exception pending: it leaves
\* processQueue, whose promise nobody awaits.
LoopAbort(w, l) ==
    /\ l.pc = "abort"
    /\ workers' = [workers EXCEPT ![w] = SetLoop(@, l, {})]
    /\ UNCHANGED <<store, registry, calls, agentLog, hist, drained, nextTask, nStart, nStop, boot, run, projects,
                   hook>>

\* ---------------------------------------------------------------- handlers

\* What a handler awaits, one after the other.  await: a call of a collaborator
\* (who) by one of its methods (what); swallow: the collaborator's wrapper
\* catches the failure and returns an empty result; guarded: the call is inside
\* the handler's own try block.  progress: this.updateProgress(p).  list:
\* gitService.getRecentCommits, whose result sets the number of commits.  test:
\* a condition on what the handler holds in memory, which throws when it fails.
Await(who, what, swallow, guarded) ==
    [op |-> "await", who |-> who, what |-> what, swallow |-> swallow, guarded |-> guarded,
     p |-> Whole(0)]
Progress(p, guarded) ==
    [op |-> "progress", who |-> "persistence", what |-> "updateProgress",
     swallow |-> FALSE, guarded |-> guarded, p |-> p]
ListCommits ==
    [op |-> "list", who |-> "version_control", what |-> "getRecentCommits",
     swallow |-> TRUE, guarded |-> FALSE, p |-> Whole(0)]
TestMemory ==
    [op |-> "test", who |-> "memory", what |-> "knowledgeBase.get", swallow |-> FALSE,
     guarded |-> FALSE, p |-> Whole(0)]

\* this.log('info', ...) and this.createActivity(...), both on the store.
Log(guarded) == Await("persistence", "log", FALSE, guarded)
CreateActivity(guarded) == Await("persistence", "createActivity", FALSE, guarded)

\* A knowledgeBase that gets its entry as soon as the repository is found.
LearnEarly(wr, op, ok, project) ==
    IF op.what = "getGitRepository" /\ ok
    THEN [wr EXCEPT !.knowledge = @ \cup {project}] ELSE wr

\* A per-commit progress that counts down from 80.
RECURSIVE CommitOpsCountdown(_, _)
CommitOpsCountdown(i, n) ==
    IF i >= n THEN <<>>
    ELSE <<Await("version_control", "getCommitDiff", TRUE, FALSE),
           Await("content", "analyzeCommit", FALSE, FALSE),
           Progress(Frac(80 * n - 50 * i, n), FALSE)>> \o CommitOpsCountdown(i + 1, n)

\* analyzeCommits' loop over the commits, from index i: getCommitDiff,
\* analyzeCommit, updateProgress(30 + (i / commits.length) * 50).
RECURSIVE CommitOps(_, _)
CommitOps(i, n) ==
    IF i >= n THEN <<>>
    ELSE <<Await("version_control", "getCommitDiff", TRUE, FALSE),
           Await("content", "analyzeCommit", FALSE, FALSE),
           Progress(Frac(30 * n + 50 * i, n), FALSE)>> \o CommitOps(i + 1, n)

\* generateTerraform with the validation before the save.
GenerateTerraformValidateFirst ==
    <<Log(FALSE), Progress(Whole(20), FALSE),
      Await("content", "generateTerraformConfig", FALSE, FALSE), Progress(Whole(50), FALSE),
      Await("template", "validateConfig", FALSE, FALSE), Progress(Whole(80), FALSE),
      Await("template", "saveTerraformConfig", FALSE, FALSE), Progress(Whole(100), FALSE),
      CreateActivity(FALSE)>>

\* generateTerraform: log, 20, llmService.generateTerraformConfig, 50,
\* terraformService.saveTerraformConfig, 80, terraformService.validateConfig
\* (which fails here when it reports invalid: the handler throws), 100,
\* createActivity('terraform_generated').
GenerateTerraform ==
    <<Log(FALSE), Progress(Whole(20), FALSE),
      Await("content", "generateTerraformConfig", FALSE, FALSE), Progress(Whole(50), FALSE),
      Await("template", "saveTerraformConfig", FALSE, FALSE), Progress(Whole(80), FALSE),
      Await("template", "validateConfig", FALSE, FALSE), Progress(Whole(100), FALSE),
      CreateActivity(FALSE)>>

\* deployInfrastructure: log, 10, storage.createDeployment; in the try block
\* terraformService.generatePlan, 30, log, 60, storage.updateDeployment
\* (planned), 100, createActivity('infrastructure_planned').
DeployInfrastructure ==
    <<Log(FALSE), Progress(Whole(10), FALSE),
      Await("persistence", "createDeployment", FALSE, FALSE),
      Await("template", "generatePlan", FALSE, TRUE), Progress(Whole(30), TRUE),
      Log(TRUE), Progress(Whole(60), TRUE),
      Await("persistence", "updateDeployment planned", FALSE, TRUE),
      Progress(Whole(100), TRUE), CreateActivity(TRUE)>>

\* The awaits of the handler of a task kind, with n commits for analyze_commits.
Script(kind, n) ==
    IF kind = "generate_terraform" THEN GenerateTerraform
    ELSE IF kind = "deploy_infrastructure" THEN DeployInfrastructure
    ELSE IF kind = "monitor_resources" THEN <<Log(FALSE), CreateActivity(FALSE)>>
    ELSE IF kind = "analyze_commits" THEN
        <<Log(FALSE), Progress(Whole(10), FALSE),
          Await("persistence", "getGitRepository", FALSE, FALSE), ListCommits,
          Progress(Whole(30), FALSE)>>
        \o CommitOps(0, n)
        \o <<Await("content", "extractLearningInsights", FALSE, FALSE),
             Await("persistence", "updateGitRepository", FALSE, FALSE),
             Progress(Whole(100), FALSE), CreateActivity(FALSE)>>
    ELSE IF kind = "learn_patterns" THEN
        <<Log(FALSE), Progress(Whole(20), FALSE), TestMemory,
          Await("content", "identifyMetaPatterns", FALSE, FALSE), Progress(Whole(60), FALSE),
          Await("content", "generateRecommendations", FALSE, FALSE), Progress(Whole(80), FALSE),
          Progress(Whole(100), FALSE), CreateActivity(FALSE)>>
    ELSE IF kind = "suggest_improvements" THEN
        <<Log(FALSE), TestMemory, Await("content", "generateImprovementSuggestions", FALSE, FALSE),
          CreateActivity(FALSE)>>
    ELSE <<>>

\* The handler makes the call it then awaits.  MemStorage does its work when it
\* is called: createDeployment stores the record as the handler passes it
\* (status deploying), updateDeployment merges the new status into it,
\* createActivity stores an Activity.
Issue(r) ==
    LET op == Script(r.kind, r.n)[r.pc] IN
    IF op.op = "test" THEN r
    ELSE [r EXCEPT !.called = Append(@, op.what),
                   !.deployment = IF op.what = "createDeployment" THEN "deploying"
                                  ELSE IF op.what = "updateDeployment planned" THEN "planned"
                                  ELSE @,
                   !.activities = IF op.what = "createActivity" THEN @ + 1 ELSE @]

\* executeTask(task) has run to the first await of the handler of the kind.
Begun(kind) == Issue([NoRun EXCEPT !.kind = kind, !.at = "body", !.pc = 1])

\* The handler goes on to its next await, or returns after the last.
Advance(r) ==
    IF r.pc + 1 > Len(Script(r.kind, r.n)) THEN [r EXCEPT !.at = "returned"]
    ELSE Issue([r EXCEPT !.pc = r.pc + 1])

Failed(r, op) == IF op.who = "memory" THEN r ELSE [r EXCEPT !.failed = @ + 1]

\* A catch block that rethrows without touching the deployment record.
CatchRethrows(r) == [r EXCEPT !.at = "catch", !.called = Append(@, "log")]

\* deployInfrastructure's catch block: storage.updateDeployment(deployment.id,
\* {status: 'failed'}), awaited, then throw error.
CatchBlock(r) ==
    [r EXCEPT !.at = "catch", !.called = Append(@, "updateDeployment failed"),
              !.deployment = "failed"]

\* The call the handler is awaiting.
Awaited(r) ==
    IF r.at = "catch" THEN Await("persistence", "updateDeployment failed", FALSE, FALSE)
    ELSE Script(r.kind, r.n)[r.pc]

\* Whether the call can fail.  The methods of MemStorage have no failing path;
\* getGitRepository returns undefined for a project without repository, and
\* analyzeCommits throws on that.  Every other collaborator does I/O.
Fallible(op) == op.who # "persistence" \/ op.what = "getGitRepository"

\* The call the handler awaits is over: ok, whether it succeeded; n, the number
\* of commits getRecentCommits returns when it succeeds.
HandlerResume(r, ok, n) ==
    IF r.at = "catch"
    THEN [(IF ok THEN r ELSE [r EXCEPT !.failed = @ + 1]) EXCEPT !.at = "threw"]
    ELSE LET op == Script(r.kind, r.n)[r.pc] IN
         IF ok
         THEN Advance(IF op.op = "progress" THEN [r EXCEPT !.reported = Append(@, op.p)]
                      ELSE IF op.op = "list" THEN [r EXCEPT !.n = n]
                      ELSE r)
         ELSE IF op.swallow
         THEN Advance([r EXCEPT !.failed = @ + 1, !.swallowed = @ + 1,
                                !.n = IF op.op = "list" THEN 0 ELSE r.n])
         ELSE IF op.guarded THEN CatchBlock(Failed(r, op))
         ELSE [Failed(r, op) EXCEPT !.at = "threw"]

\* The handler invocation of the drain loop l, which is at executeTask.
Current(l) == IF run.at = "none" THEN Begun(l.task.type) ELSE run

\* The project the payload of a task names.
ProjectOf(task) == hist[task.id].project

\* analyzeCommits, after extractLearningInsights: knowledgeBase.set(projectKey,
\* {...existingKnowledge, commitPatterns, codingStyle, lastAnalyzed}).
\* learnPatterns sets the key it has read, which adds no key.
Learn(wr, op, ok, project) ==
    IF op.what = "extractLearningInsights" /\ ok
    THEN [wr EXCEPT !.knowledge = @ \cup {project}] ELSE wr

\* A call awaited by the handler of Worker w is over and the handler runs to
\* its next await, its return or its throw; an updateProgress that succeeded
\* has written the Agent row.  knowledgeBase.get(projectKey) finds an entry or
\* does not.
HandlerStep(w, l, ok, n) ==
    /\ l.pc = "exec"
    /\ Known(w, l.task)
    /\ Current(l).at \in {"body", "catch"}
    /\ ok \/ Fallible(Awaited(Current(l)))
    /\ Awaited(Current(l)).op = "test" => (ok <=> ProjectOf(l.task) \in workers[w].knowledge)
    /\ LET r == HandlerResume(Current(l), ok, n) IN
       /\ run' = r
       /\ Commit(w, Learn(workers[w], Awaited(Current(l)), ok, ProjectOf(l.task)),
                 IF Len(r.reported) > Len(Current(l).reported)
                 THEN UpdateProgress(Row(w), r.reported[Len(r.reported)])
                 ELSE Row(w))
    /\ UNCHANGED <<registry, calls, agentLog, hist, drained, nextTask, nStart, nStop, boot, projects,
                   hook>>

\* ------------------------------------------------- a Worker used on its own

InitCommon ==
    /\ registry = [a \in DOMAIN store |-> 0]
    /\ calls = EmptyBag
    /\ agentLog = [w \in Insts |-> [started |-> 0, stopped |-> 0]]
    /\ hist = [t \in TaskIds |-> NewHist]
    /\ drained = [w \in Insts |-> <<>>]
    /\ nextTask = 1
    /\ nStart = 0
    /\ nStop = 0
    /\ boot = <<>>
    /\ run = NoRun
    /\ projects = <<>>
    /\ hook = NoHook

\* One Agent row and one freshly constructed Worker for it.
Init ==
    /\ store = (1 :> NewAgent("infrastructure"))
    /\ workers = [w \in Insts |-> IF w = 1 THEN NewWorker(1) ELSE Unbuilt]
    /\ InitCommon

Next ==
    \/ Start(1)
    \/ Stop(1)
    \/ \E k \in WorkerKinds, p \in TwoPriorities : nextTask <= WorkerTasks /\ AddTask(1, k, p)
    \/ \E c \in BagToSet(calls) : StartLog(c)
    \/ \E c \in BagToSet(calls) : StartDrain(c)
    \/ \E c \in BagToSet(calls) : StopLog(c)
    \/ \E c \in BagToSet(calls) : StopReturn(c)
    \/ \E l \in BagToSet(workers[1].loops) : LoopLogStart(1, l)
    \/ \E l \in BagToSet(workers[1].loops) : LoopExecute(1, l)
    \/ \E l \in BagToSet(workers[1].loops), p \in ProgressValues : HandlerProgress(1, l, p)
    \/ \E l \in BagToSet(workers[1].loops) : HandlerSucceed(1, l)
    \/ \E l \in BagToSet(workers[1].loops) : HandlerFail(1, l)
    \/ \E l \in BagToSet(workers[1].loops) : LoopEmit(1, l)
    \/ \E l \in BagToSet(workers[1].loops) : LoopFinally(1, l)
    \/ \E l \in BagToSet(workers[1].loops) : LoopNext(1, l)
    \/ \E l \in BagToSet(workers[1].loops) : LoopAbort(1, l)

Spec == Init /\ [][Next]_vars


\* A Worker used on its own that is started and never stopped.  Every await of
\* start() and of the drain loop is on a persistence call, and a call that
\* terminates lets the code behind it run: each of those steps is weakly fair,
\* and so is the end of a handler invocation, by return or by exception.  The
\* calls start() and addTask come from outside and need not come at all.  The
\* progress a handler reports is left out.
NextLive ==
    \/ Start(1)
    \/ \E k \in WorkerKinds, p \in TwoPriorities : nextTask <= WorkerTasks /\ AddTask(1, k, p)
    \/ \E c \in BagToSet(calls) : StartLog(c)
    \/ \E c \in BagToSet(calls) : StartDrain(c)
    \/ \E l \in BagToSet(workers[1].loops) : LoopLogStart(1, l)
    \/ \E l \in BagToSet(workers[1].loops) : LoopExecute(1, l)
    \/ \E l \in BagToSet(workers[1].loops) : HandlerSucceed(1, l)
    \/ \E l \in BagToSet(workers[1].loops) : HandlerFail(1, l)
    \/ \E l \in BagToSet(workers[1].loops) : LoopEmit(1, l)
    \/ \E l \in BagToSet(workers[1].loops) : LoopFinally(1, l)
    \/ \E l \in BagToSet(workers[1].loops) : LoopNext(1, l)
    \/ \E l \in BagToSet(workers[1].loops) : LoopAbort(1, l)

HandlerEnds == \E l \in BagToSet(workers[1].loops) : HandlerSucceed(1, l) \/ HandlerFail(1, l)

Fairness ==
    /\ WF_vars(\E c \in BagToSet(calls) : StartLog(c))
    /\ WF_vars(\E c \in BagToSet(calls) : StartDrain(c))
    /\ WF_vars(\E l \in BagToSet(workers[1].loops) : LoopLogStart(1, l))
    /\ WF_vars(\E l \in BagToSet(workers[1].loops) : LoopExecute(1, l))
    /\ WF_vars(HandlerEnds)
    /\ WF_vars(\E l \in BagToSet(workers[1].loops) : LoopEmit(1, l))
    /\ WF_vars(\E l \in BagToSet(workers[1].loops) : LoopFinally(1, l))
    /\ WF_vars(\E l \in BagToSet(workers[1].loops) : LoopNext(1, l))
    /\ WF_vars(\E l \in BagToSet(workers[1].loops) : LoopAbort(1, l))

SpecLive == Init /\ [][NextLive]_vars /\ Fairness


\* A Worker used on its own that is fed up to MaxTasks tasks of one kind, with
\* any priorities, before it is started, and then drains them.  stop() is not
\* called, so one drain loop is active at a time and its reads of
\* this.currentTask never fail.
NextOrder ==
    \/ Start(1)
    \/ \E p \in Priorities : ~workers[1].isRunning /\ AddTask(1, "generate_terraform", p)
    \/ \E c \in BagToSet(calls) : StartLog(c)
    \/ \E c \in BagToSet(calls) : StartDrain(c)
    \/ \E l \in BagToSet(workers[1].loops) : LoopLogStart(1, l)
    \/ \E l \in BagToSet(workers[1].loops) : LoopExecute(1, l)
    \/ \E l \in BagToSet(workers[1].loops) : HandlerSucceed(1, l)
    \/ \E l \in BagToSet(workers[1].loops) : HandlerFail(1, l)
    \/ \E l \in BagToSet(workers[1].loops) : LoopEmit(1, l)
    \/ \E l \in BagToSet(workers[1].loops) : LoopFinally(1, l)
    \/ \E l \in BagToSet(workers[1].loops) : LoopNext(1, l)

SpecOrder == Init /\ [][NextOrder]_vars


\* One started Worker of the infrastructure or of the learning archetype, which
\* has an entry for project 1 in its knowledgeBase from earlier tasks or has
\* none, and one task, of any kind of the two handler tables; every call the
\* handler awaits that can fail succeeds or fails, and the repository has up to
\* MaxCommits commits.
\* The handler ends as its steps decide: executeTask returns when the handler
\* has returned, and throws when the handler threw or the Worker has no
\* handler for the kind.
InitHandlers ==
    /\ \E type \in {"infrastructure", "learning"}, k \in SUBSET {1} :
          /\ type = "infrastructure" => k = {}
          /\ store = (1 :> NewAgent(type))
          /\ workers = [w \in Insts |-> IF w = 1 THEN [NewWorker(1) EXCEPT !.knowledge = k]
                                         ELSE Unbuilt]
    /\ InitCommon

NextHandlers ==
    \/ nStart = 0 /\ Start(1)
    \/ \E k \in InfrastructureKinds \cup LearningKinds : nextTask = 1 /\ AddTask(1, k, 5)
    \/ \E c \in BagToSet(calls) : StartLog(c)
    \/ \E c \in BagToSet(calls) : StartDrain(c)
    \/ \E l \in BagToSet(workers[1].loops) : LoopLogStart(1, l)
    \/ \E l \in BagToSet(workers[1].loops) : LoopExecute(1, l)
    \/ \E l \in BagToSet(workers[1].loops), ok \in BOOLEAN, n \in 0..MaxCommits :
          HandlerStep(1, l, ok, n)
    \/ \E l \in BagToSet(workers[1].loops) : run.at = "returned" /\ HandlerSucceed(1, l)
    \/ \E l \in BagToSet(workers[1].loops) :
          (run.at = "threw" \/ ~Known(1, l.task)) /\ HandlerFail(1, l)
    \/ \E l \in BagToSet(workers[1].loops) : LoopEmit(1, l)
    \/ \E l \in BagToSet(workers[1].loops) : LoopFinally(1, l)
    \/ \E l \in BagToSet(workers[1].loops) : LoopNext(1, l)

SpecHandlers == InitHandlers /\ [][NextHandlers]_vars


\* ---------------------------------------------------------------- Registry

\* A predicate of assignTask's find that does not look at the status.
MatchesAnyStatus(row, type) == row.type = type

\* The predicate of assignTask's find: a.type === agentType && a.status === 'running'.
Matches(row, type) == row.type = type /\ row.status = "running"

\* agents.find(...) over storage.getAgents(), which lists the rows in insertion
\* order, that is by ascending id; 0 stands for undefined.
FindTarget(type) ==
    LET S == {a \in DOMAIN store : Matches(store[a], type)}
    IN IF S = {} THEN 0 ELSE First(S)

\* The first Agent of the archetype whose status is running or working.
FirstEligible(type) ==
    LET S == {a \in DOMAIN store :
                 store[a].type = type /\ store[a].status \in {"running", "working"}}
    IN IF S = {} THEN 0 ELSE First(S)

\* A Registry lookup that never finds a Worker.
HasNever(a) == FALSE

\* this.agents.has(agentId).
Has(a) == a \in DOMAIN registry /\ registry[a] # 0

\* startAgent(agentId) is called: storage.getAgent(agentId) and the first await.
StartAgent(a) ==
    /\ nStart < MaxStarts
    /\ nStart' = nStart + 1
    /\ NumCalls < MaxCalls
    /\ calls' = Suspend(Call("startAgent", "get", 0, a, NoTask, 0))
    /\ UNCHANGED <<store, registry, workers, agentLog, hist, drained, nextTask, nStop, boot, run, projects,
                   hook>>

\* startAgent resumes with the row: it throws if there is none, returns if a
\* Worker is registered for the id, throws on an unknown archetype; otherwise it
\* constructs a Worker, registers it and calls its start(), which runs to its
\* first await.
StartAgentBuild(c) ==
    /\ c.pc = "get"
    /\ IF c.a \notin DOMAIN store
       THEN /\ calls' = Resume(c, {[c EXCEPT !.pc = "threw"]})
            /\ UNCHANGED <<store, registry, workers>>
       ELSE IF Has(c.a)
       THEN /\ calls' = Resume(c, {})
            /\ UNCHANGED <<store, registry, workers>>
       ELSE IF store[c.a].type \notin AgentTypes
       THEN /\ calls' = Resume(c, {[c EXCEPT !.pc = "threw"]})
            /\ UNCHANGED <<store, registry, workers>>
       ELSE /\ \E w \in Insts : ~Built(w)
            /\ LET w == First({x \in Insts : ~Built(x)})
                   s == StartHead(NewWorker(c.a), store[c.a])
               IN /\ workers' = [workers EXCEPT ![w] = s.wr]
                  /\ store' = [store EXCEPT ![c.a] = s.row]
                  /\ registry' = [registry EXCEPT ![c.a] = w]
                  /\ calls' = Resume(c, IF s.began THEN {[c EXCEPT !.pc = "s1", !.w = w]}
                                        ELSE {[c EXCEPT !.pc = "attach", !.w = w]})
    /\ UNCHANGED <<agentLog, hist, drained, nextTask, nStart, nStop, boot, run, projects, hook>>

\* startAgent resumes after agent.start(): the taskError listener is attached.
Attach(c) ==
    /\ c.pc = "attach"
    /\ workers' = [workers EXCEPT ![c.w].listeners = @ + 1]
    /\ calls' = Resume(c, {})
    /\ UNCHANGED <<store, registry, agentLog, hist, drained, nextTask, nStart, nStop, boot, run, projects,
                   hook>>

\* The caller of startAgent or stopAgent receives the call's outcome: the
\* exception it threw, or its return without a Worker to act on.
Settle(c) ==
    /\ c.pc \in {"threw", "returned"}
    /\ calls' = Resume(c, {})
    /\ UNCHANGED <<store, registry, workers, agentLog, hist, drained, nextTask, nStart, nStop, boot, run, projects,
                   hook>>

\* stopAgent(agentId) is called: without a registered Worker it returns at once;
\* otherwise the Worker's stop() runs to its first await.
StopAgent(a) ==
    /\ nStop < RegistryStops
    /\ nStop' = nStop + 1
    /\ NumCalls < MaxCalls
    /\ LET w == IF Has(a) THEN registry[a] ELSE 0 IN
       IF w = 0
       THEN /\ calls' = Suspend(Call("stopAgent", "returned", 0, a, NoTask, 0))
            /\ UNCHANGED <<store, workers, hist>>
       ELSE /\ LET s == StopHead(workers[w], Row(w)) IN Commit(w, s.wr, s.row)
            /\ calls' = Suspend(Call("stopAgent", "t1", w, a, NoTask, 0))
            /\ hist' = CutBy(hist, w)
    /\ UNCHANGED <<registry, agentLog, drained, nextTask, nStart, boot, run, projects, hook>>

\* assignTask(agentType, task) is called with a new task: storage.getAgents()
\* returns the rows as they are now, and the find that follows the await sees
\* those rows.
AssignTask(type, kind, prio) ==
    /\ nextTask <= RegistryTasks
    /\ NumCalls < MaxCalls
    /\ LET task == [id |-> nextTask, type |-> kind, priority |-> prio] IN
       /\ calls' = Suspend(Call("assignTask", "find", 0, 0, task, FindTarget(type)))
       /\ hist' = [hist EXCEPT ![task.id].prio = prio, ![task.id].req = type,
                               ![task.id].kind = kind,
                               ![task.id].elig = FirstEligible(type)]
    /\ nextTask' = nextTask + 1
    /\ UNCHANGED <<store, registry, workers, agentLog, drained, nStart, nStop, boot, run, projects,
                   hook>>

\* assignTask resumes with the rows: it throws if the find found no row; if a
\* Worker is registered for the row's id it calls addTask on it, otherwise it
\* returns.
AssignFound(c) ==
    /\ c.pc = "find"
    /\ IF c.target = 0
       THEN /\ hist' = [hist EXCEPT ![c.task.id].res = "error"]
            /\ calls' = Resume(c, {})
            /\ UNCHANGED <<store, workers, drained>>
       ELSE LET w == registry[c.target] IN
            IF w = 0
            THEN /\ hist' = [hist EXCEPT ![c.task.id].res = "ok"]
                 /\ calls' = Resume(c, {})
                 /\ UNCHANGED <<store, workers, drained>>
            ELSE LET r == AddTaskTo(workers[w], Row(w), c.task) IN
                 /\ NumLoops(r.wr) <= MaxLoops
                 /\ Commit(w, r.wr, r.row)
                 /\ hist' = Dequeued([hist EXCEPT ![c.task.id].enq = w,
                                                  ![c.task.id].calm = Calm(w),
                                                  ![c.task.id].buf = ~workers[w].isRunning],
                                     r.took)
                 /\ drained' = DrainedBy(drained, w, r.took)
                 /\ calls' = Resume(c, {[c EXCEPT !.pc = "added", !.w = w]})
    /\ UNCHANGED <<registry, agentLog, nextTask, nStart, nStop, boot, run, projects, hook>>

\* assignTask resumes after addTask and returns.
AssignReturn(c) ==
    /\ c.pc = "added"
    /\ hist' = [hist EXCEPT ![c.task.id].res = "ok"]
    /\ calls' = Resume(c, {})
    /\ UNCHANGED <<store, registry, workers, agentLog, drained, nextTask, nStart, nStop, boot, run, projects,
                   hook>>

\* The store as initializeAgents fills it when it is empty, MemStorage numbering
\* the rows from 1, and no Worker constructed yet.
InitRegistry ==
    /\ store = (1 :> NewAgent("code_generator")) @@ (2 :> NewAgent("infrastructure"))
               @@ (3 :> NewAgent("learning"))
    /\ workers = [w \in Insts |-> Unbuilt]
    /\ InitCommon

\* One kind and one priority of task; the handler reports no progress.  With at
\* most MaxCalls calls in flight and RegistryTasks tasks, no drain loop reads
\* this.currentTask after another loop has cleared it, so no exception leaves
\* processQueue.
NextRegistry ==
    \/ \E a \in DOMAIN store : StartAgent(a)
    \/ \E a \in DOMAIN store : StopAgent(a)
    \/ \E type \in RequestTypes : AssignTask(type, "generate_terraform", 10)
    \/ \E c \in BagToSet(calls) : StartAgentBuild(c)
    \/ \E c \in BagToSet(calls) : StartLog(c)
    \/ \E c \in BagToSet(calls) : StartDrain(c)
    \/ \E c \in BagToSet(calls) : Attach(c)
    \/ \E c \in BagToSet(calls) : StopLog(c)
    \/ \E c \in BagToSet(calls) : StopReturn(c)
    \/ \E c \in BagToSet(calls) : AssignFound(c)
    \/ \E c \in BagToSet(calls) : AssignReturn(c)
    \/ \E c \in BagToSet(calls) : Settle(c)
    \/ \E w \in Insts : \E l \in BagToSet(workers[w].loops) : LoopLogStart(w, l)
    \/ \E w \in Insts : \E l \in BagToSet(workers[w].loops) : LoopExecute(w, l)
    \/ \E w \in Insts : \E l \in BagToSet(workers[w].loops) : HandlerSucceed(w, l)
    \/ \E w \in Insts : \E l \in BagToSet(workers[w].loops) : HandlerFail(w, l)
    \/ \E w \in Insts : \E l \in BagToSet(workers[w].loops) : LoopEmit(w, l)
    \/ \E w \in Insts : \E l \in BagToSet(workers[w].loops) : LoopFinally(w, l)
    \/ \E w \in Insts : \E l \in BagToSet(workers[w].loops) : LoopNext(w, l)

SpecRegistry == InitRegistry /\ [][NextRegistry]_vars


\* A store that holds two Agents of one archetype (rows created through
\* storage.createAgent, numbered from 1), no Worker constructed yet.
InitShared ==
    /\ store = (1 :> NewAgent("infrastructure")) @@ (2 :> NewAgent("infrastructure"))
    /\ workers = [w \in Insts |-> Unbuilt]
    /\ InitCommon

\* The two Agents are started, never stopped, and tasks are assigned to their
\* archetype; one kind and one priority of task, the handler reports no
\* progress.
NextShared ==
    \/ \E a \in DOMAIN store : StartAgent(a)
    \/ AssignTask("infrastructure", "generate_terraform", 10)
    \/ \E c \in BagToSet(calls) : StartAgentBuild(c)
    \/ \E c \in BagToSet(calls) : StartLog(c)
    \/ \E c \in BagToSet(calls) : StartDrain(c)
    \/ \E c \in BagToSet(calls) : Attach(c)
    \/ \E c \in BagToSet(calls) : AssignFound(c)
    \/ \E c \in BagToSet(calls) : AssignReturn(c)
    \/ \E w \in Insts : \E l \in BagToSet(workers[w].loops) : LoopLogStart(w, l)
    \/ \E w \in Insts : \E l \in BagToSet(workers[w].loops) : LoopExecute(w, l)
    \/ \E w \in Insts : \E l \in BagToSet(workers[w].loops) : HandlerSucceed(w, l)
    \/ \E w \in Insts : \E l \in BagToSet(workers[w].loops) : HandlerFail(w, l)
    \/ \E w \in Insts : \E l \in BagToSet(workers[w].loops) : LoopEmit(w, l)
    \/ \E w \in Insts : \E l \in BagToSet(workers[w].loops) : LoopFinally(w, l)
    \/ \E w \in Insts : \E l \in BagToSet(workers[w].loops) : LoopNext(w, l)

SpecShared == InitShared /\ [][NextShared]_vars


\* One Agent of the learning archetype.  It is started and stopped through the
\* Registry, and stopped only while its Worker is at rest; a task is handed to
\* the registered Worker while that Worker is running and at rest, so one
\* handler executes at a time.  The tasks are of the three learning kinds, for
\* the projects of Projects, on repositories of up to LearningCommits commits.
InitLearning ==
    /\ store = (1 :> NewAgent("learning"))
    /\ workers = [w \in Insts |-> Unbuilt]
    /\ InitCommon

NextLearning ==
    \/ NumCalls = 0 /\ StartAgent(1)
    \/ Has(1) /\ NumCalls = 0 /\ workers[registry[1]].loops = EmptyBag /\ StopAgent(1)
    \/ \E k \in LearningKinds, p \in Projects :
          /\ Has(1) /\ Calm(registry[1]) /\ nextTask <= LearningTasks
          /\ AddTaskFor(registry[1], k, 5, p)
    \/ \E c \in BagToSet(calls) : StartAgentBuild(c)
    \/ \E c \in BagToSet(calls) : StartLog(c)
    \/ \E c \in BagToSet(calls) : StartDrain(c)
    \/ \E c \in BagToSet(calls) : Attach(c)
    \/ \E c \in BagToSet(calls) : StopLog(c)
    \/ \E c \in BagToSet(calls) : StopReturn(c)
    \/ \E w \in Insts : \E l \in BagToSet(workers[w].loops) : LoopLogStart(w, l)
    \/ \E w \in Insts : \E l \in BagToSet(workers[w].loops) : LoopExecute(w, l)
    \/ \E w \in Insts : \E l \in BagToSet(workers[w].loops), ok \in BOOLEAN,
          n \in 0..LearningCommits : HandlerStep(w, l, ok, n)
    \/ \E w \in Insts : \E l \in BagToSet(workers[w].loops) :
          run.at = "returned" /\ HandlerSucceed(w, l)
    \/ \E w \in Insts : \E l \in BagToSet(workers[w].loops) :
          run.at = "threw" /\ HandlerFail(w, l)
    \/ \E w \in Insts : \E l \in BagToSet(workers[w].loops) : LoopEmit(w, l)
    \/ \E w \in Insts : \E l \in BagToSet(workers[w].loops) : LoopFinally(w, l)
    \/ \E w \in Insts : \E l \in BagToSet(workers[w].loops) : LoopNext(w, l)

SpecLearning == InitLearning /\ [][NextLearning]_vars


\* One Agent.  It is started; once that call is over stopAgent is called for
\* it, and while that stopAgent awaits the Worker's stop() startAgent is called
\* for it again.  Tasks are assigned to its archetype at any time; one kind and
\* one priority of task, the handler reports no progress.
InitOverlap ==
    /\ store = (1 :> NewAgent("infrastructure"))
    /\ workers = [w \in Insts |-> Unbuilt]
    /\ InitCommon

\* A stopAgent call for Agent a is awaiting the Worker's stop().
Stopping(a) ==
    \E d \in BagToSet(calls) : d.op = "stopAgent" /\ d.a = a /\ d.pc \in {"t1", "t2"}

NextOverlap ==
    \/ nStart = 0 /\ StartAgent(1)
    \/ nStop = 0 /\ NumCalls = 0 /\ Has(1) /\ StopAgent(1)
    \/ nStart = 1 /\ Stopping(1) /\ StartAgent(1)
    \/ AssignTask("infrastructure", "generate_terraform", 10)
    \/ \E c \in BagToSet(calls) : StartAgentBuild(c)
    \/ \E c \in BagToSet(calls) : StartLog(c)
    \/ \E c \in BagToSet(calls) : StartDrain(c)
    \/ \E c \in BagToSet(calls) : Attach(c)
    \/ \E c \in BagToSet(calls) : StopLog(c)
    \/ \E c \in BagToSet(calls) : StopReturn(c)
    \/ \E c \in BagToSet(calls) : AssignFound(c)
    \/ \E c \in BagToSet(calls) : AssignReturn(c)
    \/ \E w \in Insts : \E l \in BagToSet(workers[w].loops) : LoopLogStart(w, l)
    \/ \E w \in Insts : \E l \in BagToSet(workers[w].loops) : LoopExecute(w, l)
    \/ \E w \in Insts : \E l \in BagToSet(workers[w].loops) : HandlerSucceed(w, l)
    \/ \E w \in Insts : \E l \in BagToSet(workers[w].loops) : HandlerFail(w, l)
    \/ \E w \in Insts : \E l \in BagToSet(workers[w].loops) : LoopEmit(w, l)
    \/ \E w \in Insts : \E l \in BagToSet(workers[w].loops) : LoopFinally(w, l)
    \/ \E w \in Insts : \E l \in BagToSet(workers[w].loops) : LoopNext(w, l)

SpecOverlap == InitOverlap /\ [][NextOverlap]_vars


\* ------------------------------------------------------------- useWebSocket
\* The client hook.  hook.sockets[s] is the readyState of the s-th WebSocket the
\* hook constructed; its handlers stay on the socket whatever wsRef points to.
\* hook.timers are the reconnect timers that are pending, hook.nTimers counts
\* the timers ever set, hook.attempts the invocations of connect().  hook.quiet
\* says that disconnect() was called and neither reconnect() nor a change of
\* url came after it; hook.last names the handler that ran last.  onmessage and
\* sendMessage touch neither the refs nor the timers and are left out.

\* The variables of the server.
server ==
    <<store, registry, workers, calls, agentLog, hist, drained, nextTask, nStart, nStop, boot,
      run, projects>>

\* connect(): the status is 'connecting'; new WebSocket(url) either throws,
\* which the catch turns into status 'error', or gives the socket wsRef points
\* to from now on.
Connect(h, ok) ==
    LET g == [h EXCEPT !.connectionStatus = "connecting", !.attempts = @ + 1] IN
    IF ok
    THEN [g EXCEPT !.sockets = Append(@, "CONNECTING"), !.wsRef = Len(h.sockets) + 1]
    ELSE [g EXCEPT !.connectionStatus = "error"]

OnOpen(h) == [h EXCEPT !.connectionStatus = "connected", !.reconnectCountRef = 0]

OnError(h) == [h EXCEPT !.connectionStatus = "error"]

\* onclose with the limit test off by one.
OnCloseInclusive(h) ==
    LET g == [h EXCEPT !.connectionStatus = "disconnected"] IN
    IF h.reconnectCountRef <= ReconnectAttempts
    THEN [g EXCEPT !.reconnectCountRef = @ + 1, !.nTimers = @ + 1,
                   !.timers = @ \cup {h.nTimers + 1}, !.reconnectTimeoutRef = h.nTimers + 1]
    ELSE g

\* onclose: below the limit it counts the attempt and sets the timer that will
\* call connect().
OnClose(h) ==
    LET g == [h EXCEPT !.connectionStatus = "disconnected"] IN
    IF h.reconnectCountRef < ReconnectAttempts
    THEN [g EXCEPT !.reconnectCountRef = @ + 1, !.nTimers = @ + 1,
                   !.timers = @ \cup {h.nTimers + 1}, !.reconnectTimeoutRef = h.nTimers + 1]
    ELSE g

\* WebSocket.close(): a socket that is connecting or open starts closing, its
\* close event comes later; on any other socket the call does nothing.
Close(h, s) ==
    [h EXCEPT !.sockets[s] = IF @ \in {"CONNECTING", "OPEN"} THEN "CLOSING" ELSE @]

\* disconnect(): clearTimeout on the timer the ref holds (nothing happens if
\* it has fired), close() on the socket the ref holds, both refs null.
Disconnect(h) ==
    LET a == IF h.reconnectTimeoutRef # 0
             THEN [h EXCEPT !.timers = @ \ {h.reconnectTimeoutRef}, !.reconnectTimeoutRef = 0]
             ELSE h
        b == IF a.wsRef # 0 THEN [Close(a, a.wsRef) EXCEPT !.wsRef = 0] ELSE a
    IN [b EXCEPT !.connectionStatus = "disconnected"]

Reconnect(h, ok) == Connect([Disconnect(h) EXCEPT !.reconnectCountRef = 0], ok)

\* The component mounts: both effects run, the first calls connect().
Mount(ok) ==
    /\ hook.mounted = "no"
    /\ hook' = [Connect(hook, ok) EXCEPT !.mounted = "yes", !.last = "mount"]
    /\ UNCHANGED server

\* The url option changes: the cleanup of the first effect calls disconnect(),
\* the effect runs again and calls connect().
UrlChange(ok) ==
    /\ hook.mounted = "yes"
    /\ hook.attempts < MaxSockets
    /\ hook' = [Connect(Disconnect(hook), ok) EXCEPT !.quiet = FALSE, !.last = "url"]
    /\ UNCHANGED server

\* The component unmounts: the cleanup of each effect calls disconnect().
Unmount ==
    /\ hook.mounted = "yes"
    /\ hook' = [Disconnect(Disconnect(hook)) EXCEPT !.mounted = "gone", !.quiet = TRUE,
                                                    !.last = "unmount"]
    /\ UNCHANGED server

\* The component calls the disconnect() the hook returned.
CallDisconnect ==
    /\ hook.mounted = "yes"
    /\ hook' = [Disconnect(hook) EXCEPT !.quiet = TRUE, !.last = "disconnect"]
    /\ UNCHANGED server

\* The component calls the reconnect() the hook returned.
CallReconnect(ok) ==
    /\ hook.mounted = "yes"
    /\ hook.attempts < MaxSockets
    /\ hook' = [Reconnect(hook, ok) EXCEPT !.quiet = FALSE, !.last = "reconnect"]
    /\ UNCHANGED server

\* The open event of socket s.
SocketOpen(s) ==
    /\ hook.sockets[s] = "CONNECTING"
    /\ hook' = [OnOpen(hook) EXCEPT !.sockets[s] = "OPEN", !.last = "open"]
    /\ UNCHANGED server

\* The connection of socket s fails: its error event; the close event follows.
SocketError(s) ==
    /\ hook.sockets[s] \in {"CONNECTING", "OPEN"}
    /\ hook' = [OnError(hook) EXCEPT !.sockets[s] = "CLOSING", !.last = "error"]
    /\ UNCHANGED server

\* The close event of socket s: the peer closed it, or close() was called on
\* it, or its connection failed.
SocketClose(s) ==
    /\ hook.sockets[s] \in {"OPEN", "CLOSING"}
    /\ hook' = [OnClose(hook) EXCEPT !.sockets[s] = "CLOSED", !.last = "close"]
    /\ UNCHANGED server

\* Reconnect timer t fires: connect().
TimerFire(t, ok) ==
    /\ t \in hook.timers
    /\ hook.attempts < MaxSockets
    /\ hook' = [Connect([hook EXCEPT !.timers = @ \ {t}], ok) EXCEPT !.last = "timer"]
    /\ UNCHANGED server

InitHook ==
    /\ store = (1 :> NewAgent("infrastructure"))
    /\ workers = [w \in Insts |-> Unbuilt]
    /\ InitCommon

NextHook ==
    \/ \E ok \in BOOLEAN : Mount(ok)
    \/ \E ok \in BOOLEAN : UrlChange(ok)
    \/ Unmount
    \/ CallDisconnect
    \/ \E ok \in BOOLEAN : CallReconnect(ok)
    \/ \E s \in DOMAIN hook.sockets : SocketOpen(s)
    \/ \E s \in DOMAIN hook.sockets : SocketError(s)
    \/ \E s \in DOMAIN hook.sockets : SocketClose(s)
    \/ \E t \in hook.timers, ok \in BOOLEAN : TimerFire(t, ok)

SpecHook == InitHook /\ [][NextHook]_vars


\* ---------------------------------------------------------- POST /api/projects

\* MemStorage.createProject: a new record, with the next id of the store; the
\* records are numbered here in the order of their creation.  request: the
\* request it was created for; by: the caller of storage.createProject; auto:
\* config.autoDeploy; end: for the record ProjectService created, the status
\* of the response (201, 500), for the record AgentManager created, how
\* AgentManager.createProject ended (returned, threw).
NewProject(request, by, auto) ==
    [request |-> request, by |-> by, auto |-> auto, end |-> "none"]

Requests == {x \in DOMAIN projects : projects[x].by = "ProjectService"}

\* The record ProjectService created for the request of record y: the project
\* the route sends to the client.
Returned(y) ==
    CHOOSE x \in Requests : projects[x].request = projects[y].request

\* AgentManager.createProject is over and the route answers: 201 with the
\* project ProjectService created, or 500 from its catch block.
Answer(y, outcome) ==
    [projects EXCEPT ![y].end = outcome,
                     ![Returned(y)].end = IF outcome = "returned" THEN "201" ELSE "500"]

\* POST /api/projects with a valid body: projectService.createProject calls
\* storage.createProject and then awaits fs.mkdir.
PostProject(auto) ==
    /\ Cardinality(Requests) < MaxRequests
    /\ NumCalls < MaxCalls
    /\ projects' = Append(projects,
                          NewProject(Cardinality(Requests) + 1, "ProjectService", auto))
    /\ calls' = Suspend(Call("postProject", "mkdir", 0, Len(projects) + 1, NoTask, 0))
    /\ UNCHANGED <<store, registry, workers, agentLog, hist, drained, nextTask, nStart, nStop,
                   boot, run, hook>>

\* fs.mkdir is over.  If it failed the route answers 500; otherwise the route
\* calls agentManager.createProject({...project, config}), which calls
\* storage.createProject with it and awaits.
ProjectDirectory(c, ok) ==
    /\ c.op = "postProject" /\ c.pc = "mkdir"
    /\ IF ok
       THEN /\ projects' = Append(projects, NewProject(projects[c.a].request, "AgentManager",
                                                       projects[c.a].auto))
            /\ calls' = Resume(c, {[c EXCEPT !.op = "createProject", !.pc = "project",
                                             !.a = Len(projects) + 1]})
       ELSE /\ projects' = [projects EXCEPT ![c.a].end = "500"]
            /\ calls' = Resume(c, {})
    /\ UNCHANGED <<store, registry, workers, agentLog, hist, drained, nextTask, nStart, nStop,
                   boot, run, hook>>

\* createProject calls assignTask(type, task) with a new task whose payload has
\* projectId: project.id; assignTask calls storage.getAgents(), which returns
\* the rows as they are now, and awaits.
Assign(c, h, type, kind, prio) ==
    /\ nextTask <= MaxTasks
    /\ LET task == [id |-> nextTask, type |-> kind, priority |-> prio] IN
       /\ calls' = Resume(c, {[c EXCEPT !.pc = "find", !.task = task,
                                        !.target = FindTarget(type)]})
       /\ hist' = [h EXCEPT ![task.id].prio = prio, ![task.id].req = type,
                            ![task.id].kind = kind, ![task.id].project = c.a,
                            ![task.id].elig = FirstEligible(type)]
    /\ nextTask' = nextTask + 1

\* createProject resumes with its project: the generate_project task, priority
\* 10, for the code_generator archetype.
CreateProjectAssign(c) ==
    /\ c.op = "createProject" /\ c.pc = "project"
    /\ Assign(c, hist, "code_generator", "generate_project", 10)
    /\ UNCHANGED <<store, registry, workers, agentLog, drained, nStart, nStop, boot, run,
                   projects, hook>>

\* assignTask resumes with the rows: it throws if the find found no row, and
\* createProject with it, which the route answers with 500; if a Worker is
\* registered for the row's id it calls addTask on it, otherwise it returns.
CreateProjectFound(c) ==
    /\ c.op = "createProject" /\ c.pc = "find"
    /\ IF c.target = 0
       THEN /\ hist' = [hist EXCEPT ![c.task.id].res = "error"]
            /\ projects' = Answer(c.a, "threw")
            /\ calls' = Resume(c, {})
            /\ UNCHANGED <<store, workers, drained>>
       ELSE LET w == registry[c.target] IN
            IF w = 0
            THEN /\ calls' = Resume(c, {[c EXCEPT !.pc = "added"]})
                 /\ UNCHANGED <<store, workers, drained, hist, projects>>
            ELSE LET r == AddTaskTo(workers[w], Row(w), c.task) IN
                 /\ NumLoops(r.wr) <= MaxLoops
                 /\ Commit(w, r.wr, r.row)
                 /\ hist' = Dequeued([hist EXCEPT ![c.task.id].enq = w,
                                                  ![c.task.id].calm = Calm(w),
                                                  ![c.task.id].buf = ~workers[w].isRunning],
                                     r.took)
                 /\ drained' = DrainedBy(drained, w, r.took)
                 /\ calls' = Resume(c, {[c EXCEPT !.pc = "added", !.w = w]})
                 /\ UNCHANGED projects
    /\ UNCHANGED <<registry, agentLog, nextTask, nStart, nStop, boot, run, hook>>

\* assignTask has returned.  After the first assignment, if config.autoDeploy:
\* the generate_terraform task, priority 8, for the infrastructure archetype;
\* otherwise createProject returns and the route answers 201.
CreateProjectNext(c) ==
    /\ c.op = "createProject" /\ c.pc = "added"
    /\ LET h == [hist EXCEPT ![c.task.id].res = "ok"] IN
       IF c.task.type = "generate_project" /\ projects[c.a].auto
       THEN /\ Assign(c, h, "infrastructure", "generate_terraform", 8)
            /\ UNCHANGED projects
       ELSE /\ hist' = h
            /\ projects' = Answer(c.a, "returned")
            /\ calls' = Resume(c, {})
            /\ UNCHANGED nextTask
    /\ UNCHANGED <<store, registry, workers, agentLog, drained, nStart, nStop, boot, run, hook>>

\* The store as initializeAgents fills it, and the code_generator and the
\* infrastructure agent started as initializeAgents starts them, one after the
\* other.  Requests come in once both Workers are registered and started, each
\* after the one before it was answered; nothing stops an agent.  The handlers
\* report no progress.
Ready == Has(1) /\ Has(2) /\ NumCalls = 0

NextProject ==
    \/ NumCalls = 0 /\ nStart = 0 /\ StartAgent(1)
    \/ NumCalls = 0 /\ nStart = 1 /\ StartAgent(2)
    \/ \E c \in BagToSet(calls) : StartAgentBuild(c)
    \/ \E c \in BagToSet(calls) : StartLog(c)
    \/ \E c \in BagToSet(calls) : StartDrain(c)
    \/ \E c \in BagToSet(calls) : Attach(c)
    \/ \E auto \in BOOLEAN : Ready /\ PostProject(auto)
    \/ \E c \in BagToSet(calls), ok \in BOOLEAN : ProjectDirectory(c, ok)
    \/ \E c \in BagToSet(calls) : CreateProjectAssign(c)
    \/ \E c \in BagToSet(calls) : CreateProjectFound(c)
    \/ \E c \in BagToSet(calls) : CreateProjectNext(c)
    \/ \E w \in Insts : \E l \in BagToSet(workers[w].loops) : LoopLogStart(w, l)
    \/ \E w \in Insts : \E l \in BagToSet(workers[w].loops) : LoopExecute(w, l)
    \/ \E w \in Insts : \E l \in BagToSet(workers[w].loops) : HandlerSucceed(w, l)
    \/ \E w \in Insts : \E l \in BagToSet(workers[w].loops) : HandlerFail(w, l)
    \/ \E w \in Insts : \E l \in BagToSet(workers[w].loops) : LoopEmit(w, l)
    \/ \E w \in Insts : \E l \in BagToSet(workers[w].loops) : LoopFinally(w, l)
    \/ \E w \in Insts : \E l \in BagToSet(workers[w].loops) : LoopNext(w, l)

SpecProject == InitRegistry /\ [][NextProject]_vars


\* --------------------------------------------------------------- bootstrap

\* Two default agents only.
TwoDefaultTypes == <<"code_generator", "infrastructure">>

\* The archetypes of the default agents, in the order initializeAgents creates
\* them.
DefaultTypes == <<"code_generator", "infrastructure", "learning">>

\* What a store left by an earlier run may hold in a row: an archetype (one of
\* them unknown to startAgent) and a status; a row left working names a task
\* and a progress.
StoredTypes == {"infrastructure", "security"}
StoredStatuses == {"idle", "running", "working"}
StoredRow(type, status) ==
    [type |-> type, status |-> status,
     currentTask |-> IF status = "working" THEN "generate_terraform" ELSE Null,
     progress |-> IF status = "working" THEN Whole(50) ELSE Whole(0)]
StoredRows == {StoredRow(type, status) : type \in StoredTypes, status \in StoredStatuses}
Stores == UNION {[1..n -> StoredRows] : n \in 0..MaxRows}

\* MemStorage.createAgent: the next id, a new row.
CreateAgent(type) ==
    LET id == Cardinality(DOMAIN store) + 1 IN
    /\ store' = store @@ (id :> NewAgent(type))
    /\ registry' = registry @@ (id :> 0)

\* A bootstrap that restarts every agent it read.
RestartsAny(row) == TRUE

\* initializeAgents' test of a row it read: agent.status === 'running'.
Restarts(row) == row.status = "running"

\* The first row at or after position from that initializeAgents restarts (0:
\* none); the rows in between are skipped without an await.
NextRestart(from) ==
    LET S == {a \in from..Len(boot) : Restarts(boot[a])}
    IN IF S = {} THEN 0 ELSE First(S)

StartAgentCall(a) == Call("startAgent", "get", 0, a, NoTask, 0)

\* The initializeAgents call and the startAgent call it awaits.
Bootstrap(b) == b.op = "initializeAgents"
BootstrapOver == \E b \in BagToSet(calls) : Bootstrap(b) /\ b.pc \in {"done", "failed"}
Child(c) == c.op = "startAgent" /\ nStart = 0

\* initializeAgents goes on with the rows it read, from position from: it calls
\* startAgent for the next row to restart and awaits it, or returns.
Restart(b, from, others) ==
    LET a == NextRestart(from) IN
    calls' = IF a = 0 THEN others (+) SetToBag({[b EXCEPT !.pc = "done"]})
             ELSE others (+) SetToBag({[b EXCEPT !.pc = "started", !.a = a], StartAgentCall(a)})

\* initializeAgents resumes with the rows it read: with none it creates the
\* first default agent, otherwise it starts on the rows.
BootstrapList(b) ==
    /\ Bootstrap(b) /\ b.pc = "list"
    /\ IF Len(boot) = 0
       THEN /\ CreateAgent(DefaultTypes[1])
            /\ calls' = Resume(b, {[b EXCEPT !.pc = "create", !.a = 1]})
       ELSE /\ Restart(b, 1, calls (-) SetToBag({b}))
            /\ UNCHANGED <<store, registry>>
    /\ UNCHANGED <<workers, agentLog, hist, drained, nextTask, nStart, nStop, boot, run, projects,
                   hook>>

\* initializeAgents resumes after a createAgent: it creates the next default
\* agent, or after the last calls startAgent for the first one and awaits it.
BootstrapCreate(b) ==
    /\ Bootstrap(b) /\ b.pc = "create"
    /\ IF b.a < Len(DefaultTypes)
       THEN /\ CreateAgent(DefaultTypes[b.a + 1])
            /\ calls' = Resume(b, {[b EXCEPT !.a = b.a + 1]})
       ELSE /\ calls' = Resume(b, {[b EXCEPT !.pc = "started", !.a = 1], StartAgentCall(1)})
            /\ UNCHANGED <<store, registry>>
    /\ UNCHANGED <<workers, agentLog, hist, drained, nextTask, nStart, nStop, boot, run, projects,
                   hook>>

\* The startAgent that initializeAgents awaits is over: if it threw,
\* initializeAgents throws; otherwise it calls startAgent for the next agent, or
\* returns.
BootstrapStarted(b) ==
    /\ Bootstrap(b) /\ b.pc = "started"
    /\ \A c \in BagToSet(calls) : Child(c) => c.pc = "threw"
    /\ LET others == calls (-) SetToBag({b}) IN
       IF \E c \in BagToSet(calls) : Child(c)
       THEN calls' = SetToBag({[b EXCEPT !.pc = "failed"]})
       ELSE IF Len(boot) # 0 THEN Restart(b, b.a + 1, others)
       ELSE IF b.a < Len(DefaultTypes)
       THEN calls' = others (+) SetToBag({[b EXCEPT !.a = b.a + 1], StartAgentCall(b.a + 1)})
       ELSE calls' = others (+) SetToBag({[b EXCEPT !.pc = "done"]})
    /\ UNCHANGED <<store, registry, workers, agentLog, hist, drained, nextTask, nStart, nStop,
                   boot, run, projects, hook>>

\* The process starts on a store that is empty or was left by an earlier run;
\* registerRoutes has called initializeAgents, which has read the rows.
InitBootstrap ==
    /\ store \in Stores
    /\ boot = store
    /\ registry = [a \in DOMAIN store |-> 0]
    /\ workers = [w \in Insts |-> Unbuilt]
    /\ calls = SetToBag({Call("initializeAgents", "list", 0, 0, NoTask, 0)})
    /\ agentLog = [w \in Insts |-> [started |-> 0, stopped |-> 0]]
    /\ hist = [t \in TaskIds |-> NewHist]
    /\ drained = [w \in Insts |-> <<>>]
    /\ nextTask = 1
    /\ nStart = 0
    /\ nStop = 0
    /\ run = NoRun
    /\ projects = <<>>
    /\ hook = NoHook

\* The ids startAgent is called with once initializeAgents is over: those of the
\* default agents and one more.
StartIds == 1..(Len(DefaultTypes) + 1)

\* No route is registered before initializeAgents is over; then startAgent is
\* called from outside.
NextBootstrap ==
    \/ \E b \in BagToSet(calls) : BootstrapList(b)
    \/ \E b \in BagToSet(calls) : BootstrapCreate(b)
    \/ \E b \in BagToSet(calls) : BootstrapStarted(b)
    \/ \E a \in StartIds : BootstrapOver /\ StartAgent(a)
    \/ \E c \in BagToSet(calls) : StartAgentBuild(c)
    \/ \E c \in BagToSet(calls) : StartLog(c)
    \/ \E c \in BagToSet(calls) : StartDrain(c)
    \/ \E c \in BagToSet(calls) : Attach(c)
    \/ \E c \in BagToSet(calls) : BootstrapOver /\ Settle(c)

SpecBootstrap == InitBootstrap /\ [][NextBootstrap]_vars


\* The Agent whose handler may never return.
Hung == 2

\* The process starts on an empty store.
InitIsolated == InitBootstrap /\ store = <<>>

\* initializeAgents creates and starts the three default agents; once it is
\* over, tasks are enqueued on the Workers of the infrastructure and of the
\* learning Agent, of a kind the Worker has a handler for; a handler returns,
\* throws, or goes on.  No Worker is stopped.
NextIsolated ==
    \/ \E b \in BagToSet(calls) : BootstrapList(b)
    \/ \E b \in BagToSet(calls) : BootstrapCreate(b)
    \/ \E b \in BagToSet(calls) : BootstrapStarted(b)
    \/ \E c \in BagToSet(calls) : StartAgentBuild(c)
    \/ \E c \in BagToSet(calls) : StartLog(c)
    \/ \E c \in BagToSet(calls) : StartDrain(c)
    \/ \E c \in BagToSet(calls) : Attach(c)
    \/ \E w \in Insts, k \in WorkerKinds :
          /\ BootstrapOver /\ nextTask <= IsolatedTasks
          /\ Built(w) /\ k \in HandlerTable(Row(w).type)
          /\ AddTask(w, k, 10)
    \/ \E w \in Insts : \E l \in BagToSet(workers[w].loops) : LoopLogStart(w, l)
    \/ \E w \in Insts : \E l \in BagToSet(workers[w].loops) : LoopExecute(w, l)
    \/ \E w \in Insts : \E l \in BagToSet(workers[w].loops) : HandlerSucceed(w, l)
    \/ \E w \in Insts : \E l \in BagToSet(workers[w].loops) : HandlerFail(w, l)
    \/ \E w \in Insts : \E l \in BagToSet(workers[w].loops) : LoopEmit(w, l)
    \/ \E w \in Insts : \E l \in BagToSet(workers[w].loops) : LoopFinally(w, l)
    \/ \E w \in Insts : \E l \in BagToSet(workers[w].loops) : LoopNext(w, l)
    \/ \E w \in Insts : \E l \in BagToSet(workers[w].loops) : LoopAbort(w, l)

\* A handler invocation on a Worker of an Agent other than Hung ends.
OtherHandlerEnds(w) ==
    \E l \in BagToSet(workers[w].loops) :
        workers[w].agentId # Hung /\ (HandlerSucceed(w, l) \/ HandlerFail(w, l))

\* Every persistence call terminates, and so does every handler invocation but
\* those of the Worker of Hung, which may go on for ever.
FairnessIsolated ==
    /\ WF_vars(\E b \in BagToSet(calls) : BootstrapList(b))
    /\ WF_vars(\E b \in BagToSet(calls) : BootstrapCreate(b))
    /\ WF_vars(\E b \in BagToSet(calls) : BootstrapStarted(b))
    /\ WF_vars(\E c \in BagToSet(calls) : StartAgentBuild(c))
    /\ WF_vars(\E c \in BagToSet(calls) : StartLog(c))
    /\ WF_vars(\E c \in BagToSet(calls) : StartDrain(c))
    /\ WF_vars(\E c \in BagToSet(calls) : Attach(c))
    /\ \A w \in Insts :
          /\ WF_vars(\E l \in BagToSet(workers[w].loops) : LoopLogStart(w, l))
          /\ WF_vars(\E l \in BagToSet(workers[w].loops) : LoopExecute(w, l))
          /\ WF_vars(OtherHandlerEnds(w))
          /\ WF_vars(\E l \in BagToSet(workers[w].loops) : LoopEmit(w, l))
          /\ WF_vars(\E l \in BagToSet(workers[w].loops) : LoopFinally(w, l))
          /\ WF_vars(\E l \in BagToSet(workers[w].loops) : LoopNext(w, l))
          /\ WF_vars(\E l \in BagToSet(workers[w].loops) : LoopAbort(w, l))

SpecIsolated == InitIsolated /\ [][NextIsolated]_vars /\ FairnessIsolated



\* ------------------------------------------------------------------ claims

Submitted == 1..(nextTask - 1)
EnqueuedOn(w) == {t \in Submitted : hist[t].enq = w}

\* t comes before u in the order (priority descending, enqueue order ascending).
Precedes(t, u) ==
    \/ hist[t].prio > hist[u].prio
    \/ hist[t].prio = hist[u].prio /\ t < u

\* The tasks of S in that order.
RECURSIVE InOrder(_)
InOrder(S) ==
    IF S = {} THEN <<>>
    ELSE LET first == CHOOSE t \in S : \A u \in S \ {t} : Precedes(t, u)
         IN <<first>> \o InOrder(S \ {first})

IsPrefix(s, t) == Len(s) <= Len(t) /\ SubSeq(t, 1, Len(s)) = s

QueueIds(w) == [i \in 1..Len(workers[w].taskQueue) |-> workers[w].taskQueue[i].id]

\* C1: the tasks enqueued on a Worker before it dequeues any are dequeued in
\* descending priority order, equal priorities in enqueue order: what has been
\* dequeued so far is the beginning of that order and what is still queued is
\* the rest of it.
C1_DrainOrder ==
    drained[1] \o QueueIds(1) = InOrder(EnqueuedOn(1))

\* The example of the specification: priorities [5, 10, 1, 10] are drained as
\* the second, the fourth, the first, the third task.
C1_Witness ==
    /\ nextTask = 5
    /\ hist[1].prio = 5 /\ hist[2].prio = 10 /\ hist[3].prio = 1 /\ hist[4].prio = 10
    /\ drained[1] = <<2, 4, 1, 3>>


W1 == workers[1]
A1 == store[1]
LoopsAt(w, pcs) == {l \in BagToSet(workers[w].loops) : l.pc \in pcs}
Idle(w) == workers[w].loops = EmptyBag

\* The positions of a drain loop between its dequeue and its finally block.
InHand == {"status", "logged", "exec", "completed", "errLogged"}

\* One task was enqueued, on a Worker that start() had left running with an
\* empty queue, and stop() has not been called.
OneTaskScenario == nextTask = 2 /\ hist[1].calm /\ nStop = 0

\* C2: a fresh Worker is idle; start() makes it running, in memory and in the
\* persisted row; one task enqueued on the running Worker with an empty queue
\* keeps the persisted status working (with the task's kind) while the task is
\* in hand, and the status is running again once the drain loop has ended.
C2_Lifecycle ==
    /\ nStart = 0 => ~W1.isRunning /\ A1.status = "idle" /\ W1.currentTask = NoTask /\ Idle(1)
    /\ W1.isRunning => A1.status \in {"running", "working"}
    /\ nStart > 0 /\ nStop = 0 => W1.isRunning
    /\ OneTaskScenario =>
          /\ LoopsAt(1, InHand) # {} =>
                A1.status = "working" /\ A1.currentTask = W1.currentTask.type
          /\ Idle(1) => A1.status = "running" /\ A1.currentTask = Null /\ hist[1].inv = 1

C2_Witness ==
    /\ OneTaskScenario
    /\ Idle(1)
    /\ hist[1].done = 1
    /\ A1.status = "running"


\* C10: start() on a Worker that is already running or working changes nothing:
\* no status write, no log entry, no call left pending, no drain loop.
C10_StartIdempotent ==
    [][nStart' # nStart /\ W1.isRunning =>
          UNCHANGED <<store, registry, workers, calls, agentLog, hist, drained, nextTask, nStop>>]_vars

\* start() was called twice on a Worker never stopped, both calls are over, and
\* there is one 'Agent started' entry.
C10_Witness ==
    /\ nStart = 2 /\ nStop = 0
    /\ calls = EmptyBag
    /\ agentLog[1].started = 1
    /\ A1.status = "working"

\* C5: from stop() on, and until start() is called again, the persisted status
\* is idle, also while a handler is still executing and after it has ended.
C5_IdleAfterStop ==
    ~W1.isRunning => A1.status = "idle"

\* stop() was called while a handler is executing, and the handler still is.
C5_Witness ==
    /\ ~W1.isRunning
    /\ \E l \in LoopsAt(1, {"exec"}) : hist[l.task.id].cut
    /\ A1.status = "idle"

\* C4: stop() leaves every drain loop where it is and the queue as it is; a
\* task is dequeued only while the Worker is started; while the Worker is
\* stopped the queue loses no task.
C4_CooperativeStop ==
    [][/\ nStop' # nStop =>
             /\ workers'[1].loops = W1.loops
             /\ workers'[1].taskQueue = W1.taskQueue
             /\ workers'[1].currentTask = W1.currentTask
       /\ drained'[1] # drained[1] => W1.isRunning
       /\ ~W1.isRunning /\ ~workers'[1].isRunning =>
             IsPrefix(W1.taskQueue, workers'[1].taskQueue)
             \/ \E i \in 1..Len(workers'[1].taskQueue) :
                   W1.taskQueue = SubSeq(workers'[1].taskQueue, 1, i - 1)
                                  \o SubSeq(workers'[1].taskQueue, i + 1, Len(workers'[1].taskQueue))
      ]_vars

\* stop() was called while a task's handler was executing; the handler has
\* returned, its completion entry is logged, the drain loop has ended and a
\* task is still queued.
C4_Witness ==
    /\ ~W1.isRunning /\ nStart = 1
    /\ Idle(1)
    /\ \E t \in Submitted : hist[t].cut /\ hist[t].done = 1
    /\ W1.taskQueue # <<>>


\* The number of drain loops of a Worker that are past their finally block.
Finished(wr) ==
    CopiesIn(Loop("fin", NoTask), wr.loops) + CopiesIn(Loop("abort", NoTask), wr.loops)

\* A step in which a drain loop of Worker 1 runs its finally block.
FinallyStep == Finished(workers'[1]) > Finished(W1)

RECURSIVE Total(_, _)
Total(f, S) ==
    IF S = {} THEN 0
    ELSE LET t == CHOOSE x \in S : TRUE IN hist[t][f] + Total(f, S \ {t})

\* C3: a throwing handler does not stop the drain loop, and each failure of a
\* handler adds one error-level entry and one taskError event: there are as
\* many error entries as handler failures, as many events as entries once the
\* loops have emitted them, and a started Worker with a queued task has a drain
\* loop (or a call about to start one).
C3_FailureIsolated ==
    /\ Total("err", Submitted) = Total("fail", Submitted)
    /\ LoopsAt(1, {"errLogged"}) = {} => Total("emit", Submitted) = Total("err", Submitted)
    /\ W1.isRunning /\ W1.taskQueue # <<>> => ~Idle(1) \/ calls # EmptyBag

Assigned == {t \in Submitted : hist[t].req # "none"}
Answered == {t \in Assigned : \A c \in BagToSet(calls) : c.task.id # t}

\* C7: an assignTask call that found an Agent of the archetype with status
\* running or working reports success and has enqueued the task on the Worker
\* of the first such Agent.
C7_AssignToEligible ==
    \A t \in Answered :
        hist[t].elig # 0 =>
            /\ hist[t].res = "ok"
            /\ hist[t].enq # 0
            /\ workers[hist[t].enq].agentId = hist[t].elig

\* C8: an assignTask call that found no Agent of the archetype with status
\* running or working enqueues the task on no Worker and ends with an error.
C8_FailsWithoutEligible ==
    \A t \in Assigned :
        hist[t].elig = 0 =>
            /\ hist[t].enq = 0
            /\ hist[t].res # "ok"
            /\ t \in Answered => hist[t].res = "error"

\* Two calls have failed: one for an archetype no Agent has, one for the
\* archetype of an Agent that is idle, its Worker still registered.
C8_Witness ==
    /\ \E t \in Answered : hist[t].req = "security" /\ hist[t].res = "error"
    /\ \E t \in Answered :
          hist[t].req = "infrastructure" /\ hist[t].elig = 0 /\ hist[t].res = "error"
    /\ store[2].status = "idle" /\ registry[2] # 0

\* C9: assignTask reports success only if it has enqueued the task on a Worker.
C9_NoSilentSuccess ==
    \A t \in Assigned : hist[t].res = "ok" => hist[t].enq # 0

\* C11: addTask on a Worker that is not running (never started, or stopped)
\* only appends to the queue: the persisted row, the drain loops, the task in
\* hand and the handler invocations are as before; a task buffered that way is
\* dequeued only by a started Worker; nothing at all has happened on a Worker
\* never started; and a started Worker with a queued task has a drain loop or a
\* start() about to begin one.
C11_IdleEnqueueBuffers ==
    /\ [](nStart = 0 => /\ A1 = NewAgent("infrastructure")
                        /\ Idle(1) /\ drained[1] = <<>>
                        /\ \A t \in TaskIds : hist[t].inv = 0)
    /\ [](W1.isRunning /\ W1.taskQueue # <<>> => ~Idle(1) \/ calls # EmptyBag)
    /\ [][/\ nextTask' # nextTask /\ ~W1.isRunning =>
                /\ store' = store
                /\ workers'[1].loops = W1.loops
                /\ workers'[1].currentTask = W1.currentTask
                /\ ~workers'[1].isRunning
                /\ Len(workers'[1].taskQueue) = Len(W1.taskQueue) + 1
                /\ drained' = drained
                /\ \A t \in TaskIds : hist'[t].inv = hist[t].inv
          /\ \A t \in TaskIds : hist[t].buf /\ hist'[t].deq # hist[t].deq => W1.isRunning
         ]_vars

\* One task was enqueued before the first start() and one after a stop(); each
\* was drained after the start() that followed, and its handler was invoked.
C11_Witness ==
    /\ nextTask = 3 /\ nStart = 2 /\ nStop = 1
    /\ hist[1].buf /\ hist[2].buf
    /\ hist[1].inv = 1 /\ hist[2].inv = 1
    /\ drained[1] = <<1, 2>>
    /\ Idle(1)

\* C12: a task is dequeued at most once and its handler is invoked at most
\* once.
C12_AtMostOnce ==
    \A t \in TaskIds : hist[t].deq <= 1 /\ hist[t].inv <= 1

\* C13: a task whose kind the Worker's handler table lacks has its handler
\* lookup fail once, gets one error-level entry and one taskError event and no
\* completion entry, and the drain loop goes on: once the Worker is at rest
\* every such task that was dequeued has exactly that record, and a started
\* Worker at rest has an empty queue.
C13_UnknownKindIsTaskError ==
    Idle(1) /\ calls = EmptyBag =>
        /\ \A t \in Submitted :
              hist[t].deq = 1 /\ hist[t].kind \notin HandlerTable(A1.type) =>
                  /\ hist[t].inv = 1 /\ hist[t].fail = 1
                  /\ hist[t].err = 1 /\ hist[t].emit = 1
                  /\ hist[t].done = 0
        /\ W1.isRunning => W1.taskQueue = <<>>

\* The Worker instances constructed for Agent id a.
WorkersOf(a) == {w \in Insts : workers[w].agentId = a}

\* A step in which a startAgent call finds a Worker registered for its id.
StartAgentOnRegistered ==
    \E c \in BagToSet(calls) :
        /\ c.op = "startAgent" /\ c.pc = "get" /\ registry[c.a] # 0
        /\ calls' = calls (-) SetToBag({c})

\* C14: the Registry maps an id to a Worker constructed for that id; a Worker
\* registered for an id stays the one registered until the entry is deleted; a
\* startAgent that finds a Worker registered constructs none and changes
\* nothing; and without a stopAgent, however the startAgent calls interleave, at
\* most one Worker is constructed per id (one more for each stopAgent at most).
C14_StartAgentIdempotent ==
    /\ [](\A a \in DOMAIN store :
             /\ registry[a] # 0 => workers[registry[a]].agentId = a
             /\ Cardinality(WorkersOf(a)) <= 1 + nStop)
    /\ [][/\ \A a \in DOMAIN store :
                registry[a] # 0 /\ registry'[a] # 0 => registry'[a] = registry[a]
          /\ StartAgentOnRegistered =>
                UNCHANGED <<store, registry, workers, agentLog, hist, drained>>
         ]_vars

\* startAgent was called twice and stopAgent never; the second call has
\* returned while the first is still in the Worker's start(); there is one
\* Worker, and it is registered for id 2.
C14_Witness ==
    /\ nStart = 2 /\ nStop = 0
    /\ NumCalls = 1
    /\ \E c \in BagToSet(calls) : c.op = "startAgent" /\ c.pc \in {"s1", "s2", "attach"}
    /\ Cardinality({w \in Insts : Built(w)}) = 1
    /\ registry[2] # 0

\* C15: of the Workers constructed for one Agent id at most one has a handler
\* executing, and at most one has a drain loop, which writes to the Agent's row.
C15_OneActiveWorkerPerId ==
    \A a \in DOMAIN store :
        /\ Cardinality({w \in WorkersOf(a) : LoopsAt(w, {"exec"}) # {}}) <= 1
        /\ Cardinality({w \in WorkersOf(a) : ~Idle(w)}) <= 1

\* A step in which stopAgent is called for an id with a registered Worker, and
\* a step in which such a call returns.
StopAgentCalled(a) == nStop' # nStop /\ registry[a] # 0 /\ calls' # calls
                      /\ \E c \in BagToSet(calls') : c.op = "stopAgent" /\ c.a = a /\ c.pc = "t1"
StopAgentReturns(c) == c.op = "stopAgent" /\ c.pc = "t2" /\ calls' = calls (-) SetToBag({c})

\* C17: stopAgent(id) with a Worker registered for id clears that Worker's
\* should-continue flag and writes status idle at once, and when it returns the
\* Worker has logged its stop, no Worker is registered for id and the persisted
\* status of id is idle.
C17_StopAgentRemoves ==
    [][/\ \A a \in DOMAIN store :
             StopAgentCalled(a) =>
                 /\ ~workers'[registry[a]].isRunning
                 /\ store'[a].status = "idle"
                 /\ registry'[a] = registry[a]
       /\ \A c \in BagToSet(calls) :
             StopAgentReturns(c) =>
                 /\ registry'[c.a] = 0
                 /\ store'[c.a].status = "idle"
                 /\ ~workers'[c.w].isRunning
                 /\ agentLog'[c.w].stopped >= 1
      ]_vars

\* C18: a stopAgent call for an id without a registered Worker ends with an
\* exception, not with a normal return.
C18_StopUnregisteredFails ==
    \A c \in BagToSet(calls) : c.op = "stopAgent" /\ c.w = 0 => c.pc = "threw"

\* The three archetypes.
Archetypes == {"code_generator", "infrastructure", "learning"}

\* The call has no persisted Agent, or one of no archetype.
Unstartable(c) == c.a \notin DOMAIN store \/ store[c.a].type \notin Archetypes

\* A step in which startAgent call c resumes with the row it asked for.
StartAgentResumes(c) ==
    c.op = "startAgent" /\ c.pc = "get" /\ CopiesIn(c, calls') < CopiesIn(c, calls)

Threw(c) == [c EXCEPT !.pc = "threw"]

\* C16: a startAgent call for an id without a persisted Agent, or with one of no
\* known archetype, ends with an exception and changes neither the store nor the
\* Registry nor any Worker; an initializeAgents that awaits it fails too; and no
\* Worker is ever constructed for such an id.
C16_StartAgentRejects ==
    /\ [](\A w \in Insts : Built(w) =>
             workers[w].agentId \in DOMAIN store /\ Row(w).type \in Archetypes)
    /\ [](\A a \in DOMAIN registry : registry[a] # 0 => store[a].type \in Archetypes)
    /\ [][\A c \in BagToSet(calls) :
             StartAgentResumes(c) /\ Unstartable(c) =>
                 /\ CopiesIn(Threw(c), calls') = CopiesIn(Threw(c), calls) + 1
                 /\ UNCHANGED <<store, registry, workers, agentLog>>
         ]_vars
    /\ [][\A b \in BagToSet(calls) :
             /\ Bootstrap(b) /\ b.pc = "started"
             /\ \E c \in BagToSet(calls) : c.op = "startAgent" /\ c.pc = "threw"
             /\ calls' # calls
             => calls' = SetToBag({[b EXCEPT !.pc = "failed"]})
         ]_vars

\* initializeAgents has failed on a running row of unknown archetype, and a
\* later startAgent for an id without a row has thrown; no Worker is registered
\* for either.
C16_Witness ==
    /\ \E b \in BagToSet(calls) :
          Bootstrap(b) /\ b.pc = "failed" /\ store[b.a].type = "security" /\ registry[b.a] = 0
    /\ \E c \in BagToSet(calls) :
          c.op = "startAgent" /\ c.pc = "threw" /\ c.a \notin DOMAIN store

\* C19: initializeAgents on an empty store never fails and creates at most
\* three rows; when it returns the store holds three rows, of archetypes
\* code_generator, infrastructure and learning, and each has a Worker of its
\* own registered, running, with persisted status running.
C19_BootstrapCreatesDefaults ==
    \A b \in BagToSet(calls) :
        Bootstrap(b) /\ Len(boot) = 0 =>
            /\ b.pc # "failed"
            /\ Cardinality(DOMAIN store) <= 3
            /\ b.pc = "done" =>
                  /\ DOMAIN store = 1..3
                  /\ {store[a].type : a \in 1..3} = Archetypes
                  /\ \A a \in 1..3 :
                        /\ registry[a] # 0
                        /\ workers[registry[a]].agentId = a
                        /\ workers[registry[a]].isRunning
                        /\ store[a].status = "running"

\* initializeAgents has returned on a store that was empty, and startAgent has
\* not been called since.
C19_Witness ==
    /\ Len(boot) = 0 /\ nStart = 0
    /\ \E b \in BagToSet(calls) : Bootstrap(b) /\ b.pc = "done"
    /\ Cardinality({w \in Insts : Built(w)}) = 3

\* The rows initializeAgents read all have a known archetype.
ValidBoot == Len(boot) > 0 /\ \A a \in DOMAIN boot : boot[a].type \in Archetypes

\* C20: initializeAgents on a store that holds rows creates none; when it has
\* returned, and before startAgent is called from outside, a Worker is
\* registered for exactly the rows it read as running, and a row it read as
\* idle is as it was.
C20_BootstrapRestartsRunning ==
    /\ Len(boot) > 0 => DOMAIN store = DOMAIN boot
    /\ \A b \in BagToSet(calls) :
          Bootstrap(b) /\ ValidBoot =>
              /\ b.pc # "failed"
              /\ b.pc = "done" /\ nStart = 0 =>
                    \A a \in DOMAIN boot :
                        /\ registry[a] # 0 <=> boot[a].status = "running"
                        /\ registry[a] # 0 => store[a].status = "running"
                        /\ boot[a].status = "idle" => store[a] = boot[a]
                        /\ WorkersOf(a) = IF registry[a] # 0 THEN {registry[a]} ELSE {}

\* initializeAgents has returned on a store of an idle and a running agent: the
\* running one has a Worker, the idle one has none.
C20_Witness ==
    /\ ValidBoot /\ Len(boot) = 2 /\ nStart = 0
    /\ boot[1].status = "idle" /\ boot[2].status = "running"
    /\ \E b \in BagToSet(calls) : Bootstrap(b) /\ b.pc = "done"
    /\ registry[1] = 0 /\ registry[2] # 0

\* C21: a row that initializeAgents read as working (an agent that was
\* executing a task when the process stopped) has a Worker registered and
\* running once initializeAgents has returned, its persisted status is running
\* with no current task, and no task is in hand or queued on that Worker.
C21_CrashRecovery ==
    \A b \in BagToSet(calls) :
        Bootstrap(b) /\ ValidBoot /\ b.pc = "done" /\ nStart = 0 =>
            \A a \in DOMAIN boot :
                boot[a].status = "working" =>
                    /\ registry[a] # 0
                    /\ workers[registry[a]].isRunning
                    /\ workers[registry[a]].currentTask = NoTask
                    /\ workers[registry[a]].taskQueue = <<>>
                    /\ store[a].status = "running"
                    /\ store[a].currentTask = Null

\* C22: a task that assignTask enqueues is enqueued on the Worker of the
\* first-listed Agent of the archetype that was started (status running or
\* working) when assignTask read the rows; while a first-listed Agent is
\* started, no other Agent of the archetype receives a task.
C22_NoLoadBalancing ==
    \A t \in Assigned :
        hist[t].enq # 0 /\ hist[t].elig # 0 =>
            workers[hist[t].enq].agentId = hist[t].elig

\* The number of handler invocations in progress on Worker w.
RECURSIVE Copies(_, _)
Copies(S, B) ==
    IF S = {} THEN 0
    ELSE LET l == CHOOSE x \in S : TRUE IN CopiesIn(l, B) + Copies(S \ {l}, B)
Executing(w) == Copies(LoopsAt(w, {"exec"}), workers[w].loops)

\* C23: a Worker has at most one drain loop active and at most one handler
\* invocation in progress, wherever addTask and start() interleave with the
\* drain loop.
C23_OneAtATime ==
    NumLoops(W1) <= 1 /\ Executing(1) <= 1

\* C24: while a handler is executing on a Worker on which stop() was never
\* called, the persisted status is working and the persisted currentTask is the
\* kind of the task the handler was invoked with.
C24_WorkingWhileExecuting ==
    nStop = 0 =>
        \A l \in LoopsAt(1, {"exec"}) :
            A1.status = "working" /\ A1.currentTask = l.task.type

\* C25: on a Worker that is started and never stopped, a task that is enqueued
\* is eventually dequeued and a handler is eventually invoked with it.
C25_EveryTaskRuns ==
    \A t \in 1..WorkerTasks :
        (hist[t].enq = 1 /\ W1.isRunning) ~> (hist[t].deq >= 1 /\ hist[t].inv >= 1)

\* On a Worker that is started and never stopped, a task that is enqueued is
\* eventually dequeued.
EveryTaskDequeued ==
    \A t \in 1..WorkerTasks : (hist[t].enq = 1 /\ W1.isRunning) ~> hist[t].deq >= 1

\* A step in which a drain loop of Worker 1 that is past its finally block
\* leaves its while loop and ends.
LoopExit ==
    \E l \in LoopsAt(1, {"fin"}) : workers'[1].loops = W1.loops (-) SetToBag({l})

\* C26: a drain loop that ends with the should-continue flag set leaves the
\* persisted row with status running, no current task and progress 0; one that
\* ends with the flag cleared by stop() leaves the persisted row as it is.
C26_ExitWrites ==
    [][LoopExit =>
          IF W1.isRunning
          THEN /\ W1.taskQueue = <<>>
               /\ store'[1].status = "running"
               /\ store'[1].currentTask = Null
               /\ store'[1].progress = Whole(0)
          ELSE store' = store
      ]_vars

\* C27: whatever a handler on the Worker of one Agent does, and if it never
\* returns, a task enqueued on the started Worker of another Agent is
\* eventually dequeued and that Worker eventually comes to rest; a step changes
\* the fields of one Worker at most, and an Agent row is written only in a step
\* of a Worker constructed for that Agent or of a call made for that Agent.
C27_WorkersIsolated ==
    /\ \A t \in 1..IsolatedTasks, w \in Insts :
          (hist[t].enq = w /\ workers[w].isRunning /\ workers[w].agentId # Hung)
              ~> (hist[t].deq >= 1 /\ Idle(w) /\ workers[w].taskQueue = <<>>)
    /\ [][/\ Cardinality({w \in Insts : workers'[w] # workers[w]}) <= 1
          /\ \A a \in DOMAIN store :
                store'[a] # store[a] =>
                    \/ \E w \in Insts : workers'[w].agentId = a /\ workers'[w] # workers[w]
                    \/ \E c \in BagToSet(calls) :
                          c.a = a /\ CopiesIn(c, calls') < CopiesIn(c, calls)
         ]_vars

\* A handler of the Worker of Hung has not returned, while the Worker of the
\* learning Agent has dequeued and ended two tasks that were enqueued later,
\* and is at rest.
C27_Witness ==
    /\ \E w \in WorkersOf(Hung) : \E l \in LoopsAt(w, {"exec"}) : l.task.id = 1
    /\ \E w \in WorkersOf(3) :
          /\ Len(drained[w]) = 2
          /\ Idle(w) /\ workers[w].taskQueue = <<>>
          /\ store[3].status = "running"

\* C28: a handler in which a collaborator call has failed does not return, and
\* once the drain loop has dropped the task it has one error-level entry and
\* no completion entry.
C28_FailurePropagates ==
    run.failed > 0 =>
        /\ run.at # "returned"
        /\ hist[1].done = 0
        /\ hist[1].deq = 1 /\ Idle(1) => hist[1].err = 1

\* f is a whole number from 0 to 100.
WholePercent(f) == f.den = 1 /\ 0 <= f.num /\ f.num <= 100

\* C29: every progress value a handler has written, and the progress of the
\* Agent row at any time, is a whole number from 0 to 100.
C29_ProgressIsWholePercent ==
    /\ \A i \in DOMAIN run.reported : WholePercent(run.reported[i])
    /\ WholePercent(A1.progress)

\* f <= g.
AtMost(f, g) == f.num * g.den <= g.num * f.den

\* C30: the progress values a handler writes within one task never decrease,
\* and the progress of the Agent row decreases only in the step of the drain
\* loop's finally block, which sets it to 0.
C30_ProgressNonDecreasing ==
    /\ [](\A i, j \in DOMAIN run.reported :
             i <= j => AtMost(run.reported[i], run.reported[j]))
    /\ [][~AtMost(A1.progress, store'[1].progress) =>
             FinallyStep /\ store'[1].progress = Whole(0)]_vars

\* The handler of analyze_commits has returned on a repository of three
\* commits, having written 10, 30, 30, 30 + 50/3, 30 + 100/3 and 100, and the
\* drain loop has reset the progress.
C30_Witness ==
    /\ run.kind = "analyze_commits" /\ run.at = "returned" /\ run.n = 3
    /\ run.reported = <<Whole(10), Whole(30), Whole(30), Frac(140, 3), Frac(190, 3),
                        Whole(100)>>
    /\ hist[1].done = 1
    /\ A1.progress = Whole(0)

\* The calls of a handler that go to another collaborator than the store.
Outward(what) == what \notin {"log", "updateProgress", "createActivity"}
Collaborators(r) == SelectSeq(r.called, Outward)
Last(s) == s[Len(s)]

\* validateConfig has reported the configuration invalid and generateTerraform
\* has thrown on it.
ValidationInvalid ==
    /\ run.kind = "generate_terraform" /\ run.at = "threw"
    /\ Last(run.called) = "validateConfig"

\* The drain loop has dropped task 1 and come to rest.
Dropped == hist[1].deq = 1 /\ Idle(1)

\* C31: generate_terraform calls content generation, then the template save,
\* then the template validation, each once; it creates its Activity only after
\* a validation that reported valid; and when the validation reports invalid
\* no Activity is created, progress 100 is never written, the task is not
\* reported completed and it gets exactly one error-level entry.
C31_GenerateTerraformOrder ==
    run.kind = "generate_terraform" =>
        /\ IsPrefix(Collaborators(run),
                    <<"generateTerraformConfig", "saveTerraformConfig", "validateConfig">>)
        /\ run.activities <= 1
        /\ run.activities = 1 =>
              /\ Len(Collaborators(run)) = 3
              /\ run.failed = 0
              /\ Last(run.called) = "createActivity"
        /\ ValidationInvalid =>
              /\ run.activities = 0
              /\ \A i \in DOMAIN run.reported : run.reported[i] # Whole(100)
              /\ A1.progress # Whole(100)
              /\ hist[1].done = 0
              /\ hist[1].err <= 1
              /\ Dropped => hist[1].err = 1

\* The validation reported invalid after the three calls in their order and
\* progress 20, 50 and 80; the task was dropped with one error entry.
C31_Witness ==
    /\ ValidationInvalid
    /\ Collaborators(run) = <<"generateTerraformConfig", "saveTerraformConfig", "validateConfig">>
    /\ run.reported = <<Whole(20), Whole(50), Whole(80)>>
    /\ Dropped /\ hist[1].err = 1 /\ hist[1].emit = 1
    /\ A1.progress = Whole(0)

\* How often a handler has called a method.
Times(r, what) == Cardinality({i \in DOMAIN r.called : r.called[i] = what})

\* C32: deploy_infrastructure creates one deployment record, with status
\* deploying; when the handler returns the record is planned, the plan was
\* generated and the Activity created; when it throws the record is failed,
\* and the task gets exactly one error-level entry and no completion entry;
\* once the task is dropped the record is not deploying.
C32_DeploymentOutcome ==
    run.kind = "deploy_infrastructure" =>
        /\ Times(run, "createDeployment") <= 1
        /\ run.deployment = "none" <=> Times(run, "createDeployment") = 0
        /\ run.deployment = "deploying" =>
              run.at = "body" /\ Times(run, "updateDeployment planned") = 0
        /\ run.at = "returned" =>
              /\ run.deployment = "planned"
              /\ Times(run, "generatePlan") = 1 /\ run.failed = 0
              /\ run.activities = 1
        /\ run.at = "threw" =>
              /\ run.deployment = "failed"
              /\ run.activities = 0
              /\ hist[1].done = 0
              /\ hist[1].err <= 1
              /\ Dropped => hist[1].err = 1
        /\ Dropped => run.deployment \in {"planned", "failed"}

\* generatePlan failed on the record just created: the catch block marked it
\* failed and rethrew, and the task was dropped with one error entry.
C32_Witness ==
    /\ run.kind = "deploy_infrastructure" /\ run.at = "threw"
    /\ run.called = <<"log", "updateProgress", "createDeployment", "generatePlan",
                      "updateDeployment failed">>
    /\ run.deployment = "failed"
    /\ Dropped /\ hist[1].err = 1 /\ hist[1].done = 0

\* Task t has a 'Completed task' entry.
Completed(t) == hist[t].done >= 1

\* The drain loop is done with task t: it has its completion or its error entry.
Over(t) == hist[t].done + hist[t].err >= 1

\* An analyze_commits task for the project of task t was enqueued on the same
\* Worker instance before t and has completed.
AnalysedBefore(t) ==
    \E u \in Submitted :
        /\ u < t
        /\ hist[u].kind = "analyze_commits" /\ hist[u].project = hist[t].project
        /\ hist[u].enq = hist[t].enq
        /\ Completed(u)

\* The handler of an analyze_commits task for project p that Worker w dequeued
\* is executing or has returned.
Analysing(w, p) ==
    \E u \in Submitted :
        /\ hist[u].kind = "analyze_commits" /\ hist[u].project = p /\ hist[u].enq = w
        /\ hist[u].inv >= 1 /\ hist[u].err = 0

\* C33: a learn_patterns task completes only if an analyze_commits task for
\* its project has completed before on the same Worker instance, and a
\* suggest_improvements task only if that instance has knowledge of its
\* project; otherwise the task fails, with one error entry.  A Worker
\* instance has knowledge only of the projects its own analyze_commits tasks
\* analysed, and its knowledge changes only in a step of an analyze_commits
\* handler.
C33_KnowledgePerInstance ==
    /\ [](\A t \in Submitted :
             /\ hist[t].kind = "learn_patterns" /\ Completed(t) => AnalysedBefore(t)
             /\ hist[t].kind = "suggest_improvements" /\ Completed(t) =>
                   hist[t].project \in workers[hist[t].enq].knowledge
             /\ hist[t].kind \in {"learn_patterns", "suggest_improvements"} /\ Over(t)
                   /\ ~AnalysedBefore(t) =>
                   hist[t].err = 1 /\ hist[t].done = 0)
    /\ [](\A w \in Insts : \A p \in workers[w].knowledge : Analysing(w, p))
    /\ [][\A w \in Insts :
             workers'[w].knowledge # workers[w].knowledge =>
                /\ run'.kind = "analyze_commits"
                /\ Last(run.called) = "extractLearningInsights"]_vars

\* analyze_commits for project 1 completed on the first Worker of the agent
\* and learn_patterns for project 1 completed on it; the agent was stopped and
\* started again, and learn_patterns for project 1 failed on its second Worker,
\* which knows nothing.
C33_Witness ==
    /\ nextTask = 4
    /\ hist[1].kind = "analyze_commits" /\ hist[1].enq = 1 /\ Completed(1)
    /\ hist[2].kind = "learn_patterns" /\ hist[2].enq = 1 /\ Completed(2)
    /\ hist[3].kind = "learn_patterns" /\ hist[3].enq = 2 /\ hist[3].err = 1
    /\ \A t \in 1..3 : hist[t].project = 1
    /\ workers[1].agentId = 1 /\ workers[2].agentId = 1
    /\ workers[1].knowledge = {1} /\ workers[2].knowledge = {}

\* The records AgentManager.createProject created, and of those the ones whose
\* call is over.
ManagerProjects == {y \in DOMAIN projects : projects[y].by = "AgentManager"}
CreateProjectOver(y) == projects[y].end \in {"returned", "threw"}

\* The tasks of a kind that createProject made for project y, and of those the
\* ones enqueued on a Worker of an Agent of the archetype.
TasksFor(y, kind) == {t \in Submitted : hist[t].project = y /\ hist[t].kind = kind}
EnqueuedFor(y, kind, type) ==
    {t \in TasksFor(y, kind) :
        hist[t].enq # 0 /\ store[workers[hist[t].enq].agentId].type = type}

\* C34: a createProject call that is over has enqueued one generate_project
\* task, of priority 10, on the code-generation Worker, and one
\* generate_terraform task, of priority 8, on the infrastructure Worker if
\* config.autoDeploy is set and none if it is not; unless the code-generation
\* assignment failed, and then the call threw and made no generate_terraform
\* task.
C34_CreateProjectEnqueues ==
    \A y \in ManagerProjects :
        /\ \A t \in TasksFor(y, "generate_project") : hist[t].prio = 10
        /\ \A t \in TasksFor(y, "generate_terraform") : hist[t].prio = 8
        /\ CreateProjectOver(y) =>
              IF \E t \in TasksFor(y, "generate_project") : hist[t].res = "error"
              THEN /\ projects[y].end = "threw"
                   /\ TasksFor(y, "generate_terraform") = {}
              ELSE /\ Cardinality(EnqueuedFor(y, "generate_project", "code_generator")) = 1
                   /\ Cardinality(EnqueuedFor(y, "generate_terraform", "infrastructure"))
                         = IF projects[y].auto THEN 1 ELSE 0

\* The Project records persisted for the request of record x.
RecordsOf(x) == {y \in DOMAIN projects : projects[y].request = projects[x].request}

\* C37: a request that was answered with 201 has persisted exactly one Project
\* record, the one sent to the client, and every task enqueued for the request
\* carries the id of that record.
C37_OneProjectPerRequest ==
    \A x \in Requests :
        projects[x].end = "201" =>
            /\ RecordsOf(x) = {x}
            /\ \A t \in Submitted : hist[t].project \in RecordsOf(x) => hist[t].project = x

\* stop() has run on Worker w to its 'Agent stopped' entry, no stopAgent call
\* for w is in flight and the Registry entry of its agent id is not w: w was
\* stopped and removed.
Removed(w) ==
    /\ Built(w)
    /\ agentLog[w].stopped >= 1
    /\ registry[workers[w].agentId] # w
    /\ \A c \in BagToSet(calls) : c.op = "stopAgent" => c.w # w

\* The tasks in the queue of Worker w.
Buffered(w) == {workers[w].taskQueue[i].id : i \in DOMAIN workers[w].taskQueue}

\* C35: a Worker that was stopped and removed stays so, no longer runs and
\* dequeues nothing further; the tasks in its queue stay there and have no
\* log entry of any kind; and a Worker that startAgent constructs begins with
\* an empty queue.
C35_BufferedTasksLost ==
    /\ [](\A w \in Insts : Removed(w) =>
             /\ ~workers[w].isRunning
             /\ \A t \in Buffered(w) :
                   hist[t].deq = 0 /\ hist[t].started = 0 /\ hist[t].done = 0
                   /\ hist[t].err = 0)
    /\ [][\A w \in Insts :
             /\ Removed(w) =>
                   /\ Removed(w)'
                   /\ drained'[w] = drained[w]
                   /\ workers'[w].taskQueue = workers[w].taskQueue
             /\ ~Built(w) /\ workers'[w].agentId # 0 => workers'[w].taskQueue = <<>>]_vars

\* The first Worker of the infrastructure agent was stopped and removed with
\* task 1 in its queue; the agent was started again and its second Worker has
\* an empty queue and has dequeued nothing; task 1 has no log entry.
C35_Witness ==
    /\ Removed(1) /\ Buffered(1) = {1}
    /\ workers[2].agentId = workers[1].agentId
    /\ registry[workers[1].agentId] = 2
    /\ workers[2].isRunning /\ workers[2].taskQueue = <<>> /\ drained[2] = <<>>
    /\ agentLog[2].started = 1
    /\ hist[1].res = "ok"
    /\ hist[1].started = 0 /\ hist[1].err = 0

\* A startAgent or stopAgent call is in flight.
Switching == \E c \in BagToSet(calls) : c.op \in {"startAgent", "stopAgent"}

\* C36: the startAgent that was called while stopAgent awaited stop() returns
\* from its look at the Registry without effect, and once both calls are over
\* no Worker is registered for the id and the persisted status is idle.
C36_StartDuringStopDropped ==
    /\ [](nStart = 2 /\ ~Switching => registry[1] = 0 /\ A1.status = "idle")
    /\ [][\A c \in BagToSet(calls) :
             nStart = 2 /\ c.op = "startAgent" /\ c.pc = "get"
             /\ CopiesIn(c, calls') < CopiesIn(c, calls) =>
                /\ UNCHANGED <<store, registry, workers>>
                /\ calls' = calls (-) SetToBag({c})]_vars

\* C38: from a disconnect() until reconnect() is called or the url changes,
\* connect() is not invoked and no reconnect timer is set.
C38_DisconnectStaysDisconnected ==
    [][hook.quiet /\ hook'.quiet =>
          /\ hook'.attempts = hook.attempts
          /\ hook'.timers \subseteq hook.timers]_vars

\* C39: the reconnect counter never exceeds reconnectAttempts; a timer is set
\* only by a close that finds the counter below the limit, and that close
\* counts one attempt; the counter goes down only to 0, and only in onopen or
\* in reconnect().
C39_ReconnectCounterBounded ==
    /\ [](hook.reconnectCountRef <= ReconnectAttempts)
    /\ [][hook'.nTimers # hook.nTimers =>
             /\ hook'.last = "close"
             /\ hook.reconnectCountRef < ReconnectAttempts
             /\ hook'.reconnectCountRef = hook.reconnectCountRef + 1]_vars
    /\ [][hook'.reconnectCountRef # hook.reconnectCountRef =>
             \/ hook'.last = "close" /\ hook'.nTimers = hook.nTimers + 1
             \/ hook'.reconnectCountRef = 0 /\ hook'.last \in {"open", "reconnect"}]_vars

\* The first connection and reconnectAttempts automatic attempts have all
\* failed, and the last close set no timer.
C39_Witness ==
    /\ hook.reconnectCountRef = ReconnectAttempts
    /\ hook.last = "close"
    /\ hook.attempts = ReconnectAttempts + 1
    /\ hook.nTimers = ReconnectAttempts
    /\ hook.timers = {}
    /\ ~hook.quiet
    /\ \A s \in DOMAIN hook.sockets : hook.sockets[s] = "CLOSED"
    /\ Len(hook.sockets) = ReconnectAttempts + 1

====
